---- MODULE Spec2Model ----
(***************************************************************************)
(* MCDReforged plugin manager (mcdreforged/plugin/plugin_manager.py) as a  *)
(* state machine.  One action per manager operation; every operation runs  *)
(* its collect phase, the dependency check, the lifecycle events and the   *)
(* registry rebuild in one step, as the Python handler does.               *)
(***************************************************************************)
EXTENDS Integers, Sequences, FiniteSets, TLC

(***************************************************************************)
(* Bounds of the model                                                     *)
(***************************************************************************)
\* number of changes the environment makes to the plugin folder in one run
MaxChanges == 2
\* number of add_event_listener calls made by listeners outside a manager operation
MaxAdds == 2
\* number of events enqueued for dispatch in one run
MaxEvents == 2
\* capacity of the task queue that put_info fills (MAX_TASK_QUEUE_SIZE of the model)
MaxQueue == 2
\* the clock stops at this time, in seconds
MaxTime == 11
\* number of infos dropped in one run
MaxDrops == 3
\* length of the command strings
MaxLen == 5
\* number of calls of then, runs, requires and redirects in one run
MaxCalls == 3
\* number of calls in progress on the reactor worker, one inside the other
MaxDepth == 2

\* constant.REACTOR_QUEUE_FULL_WARN_INTERVAL_SEC
REACTOR_QUEUE_FULL_WARN_INTERVAL_SEC == 5

(***************************************************************************)
(* Data                                                                    *)
(***************************************************************************)
None == "None"
\* an absent file, an absent Plugin object, metadata not read yet
NoFile == [absent |-> "file"]
NoPlugin == [absent |-> "plugin"]
NoMeta == [absent |-> "meta"]

Ids == {"A", "B", "C"}
\* file stems in the plugin folder; the metadata of "d" declares the id "A"
Names == {"a", "b", "c", "d"}
\* <<n, FALSE>> is plugins/n.py, <<n, TRUE>> is plugins/n.py.disabled
Paths == Names \X BOOLEAN
PyPaths == {p \in Paths : ~p[2]}

\* PLUGIN_FILE_SUFFIX / DISABLED_PLUGIN_FILE_SUFFIX handling of enable and disable
RemoveDisabledSuffix(path) == <<path[1], FALSE>>
AppendDisabledSuffix(path) == <<path[1], TRUE>>

\* PluginState
UNINITIALIZED == "UNINITIALIZED"
LOADING == "LOADING"
LOADED == "LOADED"
READY == "READY"
UNLOADING == "UNLOADING"
UNLOADED == "UNLOADED"

PLUGIN_LOAD == "PLUGIN_LOAD"
PLUGIN_UNLOAD == "PLUGIN_UNLOAD"
\* ids of the user events listeners register for
Events == {"e", "f"}
Priorities == {1, 2}

\* A plugin file: the metadata it declares (id, version, dependencies as a
\* sequence of <<id, requirement>>), whether evaluating it throws, whether the
\* instance throws while it is unloaded, and whether its PLUGIN_LOAD handler
\* calls add_event_listener.  A requirement n > 0 is ">=n", 0 is "*".
File(id, ver, deps, lthrow, uthrow, reg) ==
    [id |-> id, ver |-> ver, deps |-> deps, lthrow |-> lthrow, uthrow |-> uthrow, reg |-> reg]

\* the files the environment can put at plugins/n.py
A1 == File("A", 1, <<>>, FALSE, FALSE, FALSE)
ACycle == File("A", 1, <<<<"C", 0>>>>, FALSE, FALSE, FALSE)
B1 == File("B", 1, <<<<"A", 1>>>>, FALSE, FALSE, FALSE)
BNeedsA2 == File("B", 1, <<<<"A", 2>>>>, FALSE, FALSE, TRUE)
BLoadThrows == File("B", 1, <<<<"A", 1>>>>, TRUE, FALSE, FALSE)
CNeedsB == File("C", 1, <<<<"B", 0>>>>, FALSE, FALSE, FALSE)
CUnloadThrows == File("C", 1, <<<<"B", 0>>, <<"A", 0>>>>, FALSE, TRUE, TRUE)
D2 == File("A", 2, <<>>, FALSE, FALSE, TRUE)
DUnloadThrows == File("A", 2, <<>>, FALSE, TRUE, FALSE)

\* the id a file declares does not change while the file lives
ContentsOf(n) ==
    CASE n = "a" -> {A1, ACycle}
      [] n = "b" -> {B1, BNeedsA2, BLoadThrows}
      [] n = "c" -> {CNeedsB, CUnloadThrows}
      [] n = "d" -> {D2, DUnloadThrows}
Contents == UNION {ContentsOf(n) : n \in Names}
\* what a fresh checkout of the plugin folder holds for a file
BaseContent(n) == CASE n = "a" -> A1 [] n = "b" -> B1 [] n = "c" -> CNeedsB [] n = "d" -> D2

(***************************************************************************)
(* Sequence helpers                                                        *)
(***************************************************************************)
Range(s) == {s[i] : i \in 1..Len(s)}
InSeq(x, s) == \E i \in 1..Len(s) : s[i] = x
Remove(s, x) == SelectSeq(s, LAMBDA y : y # x)
IndexOf(s, x) == CHOOSE i \in 1..Len(s) : s[i] = x

(***************************************************************************)
(* Plugin entity (mcdreforged/plugin/plugin.py): its state machine, its    *)
(* registry and the events it receives.  A method gives the plugin record  *)
(* after the call, whether the call threw, and the states it went through. *)
(***************************************************************************)
NewPlugin(path) == [file_path |-> path, meta |-> NoMeta, state |-> UNINITIALIZED, reg |-> <<>>]

\* the state changes a walk through the states `path` makes
Pairs(path) == {<<path[i], path[i + 1]>> : i \in 1..(Len(path) - 1)}

FileExists(fsys, p) == fsys[p.file_path] # NoFile
FileChanged(fsys, p) == fsys[p.file_path] # p.meta

\* Plugin.load: evaluate the file and read its metadata
PluginLoad(fsys, p) ==
    LET c == fsys[p.file_path] IN
    IF c = NoFile \/ c.lthrow
    THEN [plugin |-> [p EXCEPT !.state = UNLOADING], threw |-> TRUE,
          path |-> <<p.state, LOADING, UNLOADING>>]
    ELSE [plugin |-> [p EXCEPT !.state = LOADED, !.meta = c], threw |-> FALSE,
          path |-> <<p.state, LOADING, LOADED>>]

\* Plugin.unload: the registry is cleared and the plugin is UNLOADING
PluginUnload(p) ==
    IF p.meta # NoMeta /\ p.meta.uthrow
    THEN [plugin |-> p, threw |-> TRUE, path |-> <<p.state>>]
    ELSE [plugin |-> [p EXCEPT !.state = UNLOADING, !.reg = <<>>], threw |-> FALSE,
          path |-> <<p.state, UNLOADING>>]

\* Plugin.reload: unload the old instance, evaluate the file again; the state stays READY
PluginReload(fsys, p) ==
    LET c == fsys[p.file_path] IN
    IF p.meta.uthrow \/ c = NoFile \/ c.lthrow
    THEN [plugin |-> p, threw |-> TRUE, path |-> <<p.state>>]
    ELSE [plugin |-> [p EXCEPT !.meta = c, !.reg = <<>>], threw |-> FALSE, path |-> <<p.state>>]

PluginSetState(p, st) ==
    [plugin |-> [p EXCEPT !.state = st], threw |-> FALSE,
     path |-> IF p.state = st THEN <<st>> ELSE <<p.state, st>>]
PluginReady(p) == PluginSetState(p, READY)
PluginRemove(p) == PluginSetState(p, UNLOADED)

Listener(id, ev, prio) == [plugin |-> id, ev |-> ev, prio |-> prio]
\* Plugin.add_event_listener: the listener goes to the plugin's own registry
PluginAddEventListener(p, l) == [p EXCEPT !.reg = Append(@, l)]

\* the listener the PLUGIN_LOAD handler of a registering plugin adds
OnLoadListener(id) == Listener(id, "e", 1)

\* Plugin.receive_event: run the plugin's handlers of the event; the PLUGIN_LOAD
\* handler of a registering plugin calls add_event_listener
PluginReceiveEvent(p, ev) ==
    IF ev = PLUGIN_LOAD /\ p.meta.reg THEN PluginAddEventListener(p, OnLoadListener(p.meta.id)) ELSE p

\* VersionRequirement.accept
Accept(req, ver) == ver >= req

(***************************************************************************)
(* PluginManager: the state an operation works on                          *)
(*   plugins   keys of self.plugins in insertion order                     *)
(*   plug      the Plugin objects by id (NoPlugin when there is none); an  *)
(*             object taken off the map stays until the operation has      *)
(*             returned                                                    *)
(*   fpath     self.plugin_file_path                                       *)
(*   registry  self.registry_storage.event_listeners                       *)
(*   result    self.last_operation_result: the lists of the last operation *)
(*             that recorded one, kept until the next one does             *)
(*   events    the lifecycle events dispatched by the operation, in order  *)
(*   trans     the plugin state changes made by the operation              *)
(*   raised    an exception left the operation                             *)
(***************************************************************************)
EmptySingle == [succ |-> <<>>, fail |-> <<>>]
EmptyResult == [load |-> EmptySingle, unload |-> EmptySingle, reload |-> EmptySingle, dep |-> EmptySingle]
\* SingleOperationResult.record
Record(r, x, ok) == IF ok THEN [r EXCEPT !.succ = Append(@, x)] ELSE [r EXCEPT !.fail = Append(@, x)]

EmptyRegistry == [e \in Events |-> <<>>]

InitManager ==
    [plugins |-> <<>>, plug |-> [i \in Ids |-> NoPlugin], fpath |-> [p \in Paths |-> None],
     registry |-> EmptyRegistry, result |-> EmptyResult,
     events |-> <<>>, trans |-> {}, raised |-> FALSE]

\* the bookkeeping of one operation starts empty
BeginOp(m) == [m EXCEPT !.events = <<>>, !.trans = {}, !.raised = FALSE]

Moved(m, r) == [m EXCEPT !.trans = @ \cup Pairs(r.path)]
SetPlugin(m, id, r) == [Moved(m, r) EXCEPT !.plug[id] = r.plugin]

ContainsPluginFile(m, path) == m.fpath[path] # None
ContainsPluginId(m, id) == InSeq(id, m.plugins)

\* __add_plugin
AddPlugin(m, p) ==
    [m EXCEPT !.plugins = IF InSeq(p.meta.id, @) THEN @ ELSE Append(@, p.meta.id),
              !.plug[p.meta.id] = p,
              !.fpath[p.file_path] = p.meta.id]

\* __remove_plugin
RemovePlugin(m, id) ==
    [m EXCEPT !.plugins = Remove(@, id), !.fpath[m.plug[id].file_path] = None]

\* LoadPluginImpl removing a duplicate without unloading it first
LoadPluginImpl_removeWithoutUnload(m, fsys, path) ==
    LET l == PluginLoad(fsys, NewPlugin(path)) IN
    IF l.threw THEN [m |-> Moved(m, l), plugin |-> None]
    ELSE IF ~ContainsPluginId(m, l.plugin.meta.id)
         THEN [m |-> AddPlugin(Moved(m, l), l.plugin), plugin |-> l.plugin.meta.id]
         ELSE [m |-> Moved(Moved(m, l), PluginRemove(l.plugin)), plugin |-> None]

\* LoadPluginImpl letting a duplicate id take the place of the plugin in the map
LoadPluginImpl_replaceDuplicate(m, fsys, path) ==
    LET l == PluginLoad(fsys, NewPlugin(path)) IN
    IF l.threw THEN [m |-> Moved(m, l), plugin |-> None]
    ELSE [m |-> AddPlugin(Moved(m, l), l.plugin), plugin |-> l.plugin.meta.id]

\* __load_plugin: gives the manager and the new plugin's id, None when it was not added
LoadPluginImpl(m, fsys, path) ==
    LET l == PluginLoad(fsys, NewPlugin(path)) IN
    IF l.threw THEN [m |-> Moved(m, l), plugin |-> None]
    ELSE IF ~ContainsPluginId(m, l.plugin.meta.id)
         THEN [m |-> AddPlugin(Moved(m, l), l.plugin), plugin |-> l.plugin.meta.id]
         ELSE LET u == PluginUnload(l.plugin)
                  v == PluginRemove(IF u.threw THEN l.plugin ELSE u.plugin)
              IN [m |-> Moved(Moved(Moved(m, l), u), v), plugin |-> None]

\* UnloadPluginImpl removing the plugin only when unload did not throw
UnloadPluginImpl_keepOnThrow(m, id) ==
    LET u == PluginUnload(m.plug[id])
        r == IF u.threw THEN PluginSetState(u.plugin, UNLOADING) ELSE u
    IN [m |-> IF u.threw THEN SetPlugin(m, id, r) ELSE RemovePlugin(SetPlugin(m, id, r), id),
        ret |-> ~u.threw]

\* __unload_plugin: gives the manager and whether the unload went without exception
UnloadPluginImpl(m, id) ==
    LET u == PluginUnload(m.plug[id])
        r == IF u.threw THEN PluginSetState(u.plugin, UNLOADING) ELSE u
    IN [m |-> RemovePlugin(SetPlugin(m, id, r), id), ret |-> ~u.threw]

\* __reload_plugin
ReloadPluginImpl(m, fsys, id) ==
    LET r == PluginReload(fsys, m.plug[id]) IN
    IF r.threw THEN [m |-> UnloadPluginImpl(m, id).m, ret |-> FALSE]
    ELSE [m |-> SetPlugin(m, id, r), ret |-> TRUE]

(***************************************************************************)
(* DependencyWalker (mcdreforged/plugin/dependency_walker.py): depth-first *)
(* over the plugins in insertion order.  A plugin fails when a dependency  *)
(* is absent, has a version the requirement rejects, is being visited (a   *)
(* cycle) or failed itself.  Passing plugins come in visit-completion      *)
(* order, then the failing ones in the order they were met.                *)
(***************************************************************************)
InitWalk == [status |-> [i \in Ids |-> None], visiting |-> {}, topo |-> <<>>]

RECURSIVE EnsureLoaded(_, _, _, _), EnsureDeps(_, _, _, _)
EnsureLoaded(m, w, id, req) ==
    IF ~ContainsPluginId(m, id) THEN [ok |-> FALSE, w |-> w]
    ELSE IF ~Accept(req, m.plug[id].meta.ver) THEN [ok |-> FALSE, w |-> w]
    ELSE IF w.status[id] = "pass" THEN [ok |-> TRUE, w |-> w]
    ELSE IF w.status[id] = "fail" \/ id \in w.visiting THEN [ok |-> FALSE, w |-> w]
    ELSE LET r == EnsureDeps(m, [w EXCEPT !.visiting = @ \cup {id}], m.plug[id].meta.deps, 1) IN
         IF r.ok
         THEN [ok |-> TRUE,
               w |-> [r.w EXCEPT !.status[id] = "pass", !.topo = Append(@, id), !.visiting = @ \ {id}]]
         ELSE [ok |-> FALSE, w |-> [r.w EXCEPT !.status[id] = "fail", !.visiting = @ \ {id}]]
EnsureDeps(m, w, deps, i) ==
    IF i > Len(deps) THEN [ok |-> TRUE, w |-> w]
    ELSE LET r == EnsureLoaded(m, w, deps[i][1], deps[i][2]) IN
         IF r.ok THEN EnsureDeps(m, r.w, deps, i + 1) ELSE r

RECURSIVE WalkFrom(_, _, _, _)
WalkFrom(m, w, i, failed) ==
    IF i > Len(m.plugins) THEN [w |-> w, failed |-> failed]
    ELSE LET r == EnsureLoaded(m, w, m.plugins[i], 0) IN
         WalkFrom(m, r.w, i + 1, IF r.ok THEN failed ELSE Append(failed, m.plugins[i]))

\* DependencyWalker.walk: the sequence of [plugin_id, success]
Walk(m) ==
    LET r == WalkFrom(m, InitWalk, 1, <<>>) IN
    [i \in 1..Len(r.w.topo) |-> [plugin_id |-> r.w.topo[i], success |-> TRUE]]
    \o [i \in 1..Len(r.failed) |-> [plugin_id |-> r.failed[i], success |-> FALSE]]

(***************************************************************************)
(* PluginManagerRegistry (mcdreforged/plugin/plugin_registry.py)           *)
(***************************************************************************)
RECURSIVE CollectFrom(_, _, _)
\* PluginManagerRegistry.collect: every listener joins the list of its event
CollectFrom(registry, reg, i) ==
    IF i > Len(reg) THEN registry
    ELSE CollectFrom([registry EXCEPT ![reg[i].ev] = Append(@, reg[i])], reg, i + 1)
Collect(registry, reg) == CollectFrom(registry, reg, 1)

RECURSIVE SortByPriority(_)
\* a stable sort by ascending priority
SortByPriority(s) ==
    IF s = <<>> THEN <<>>
    ELSE LET least == CHOOSE k \in {s[i].prio : i \in 1..Len(s)} :
                          \A i \in 1..Len(s) : k <= s[i].prio
         IN SelectSeq(s, LAMBDA l : l.prio = least) \o SortByPriority(SelectSeq(s, LAMBDA l : l.prio # least))
\* PluginManagerRegistry.arrange
Arrange(registry) == [e \in Events |-> SortByPriority(registry[e])]

(***************************************************************************)
(* Plugin collectors and handlers                                          *)
(***************************************************************************)
RECURSIVE Flatten(_)
Flatten(ss) == IF ss = <<>> THEN <<>> ELSE Head(ss) \o Flatten(Tail(ss))

RECURSIVE ProcessNew(_, _, _, _, _, _)
ProcessNew(m, fsys, filter, files, i, result) ==
    IF i > Len(files) THEN [m |-> m, result |-> result]
    ELSE IF ~ContainsPluginFile(m, files[i]) /\ files[i] \in filter
         THEN LET l == LoadPluginImpl(m, fsys, files[i]) IN
              ProcessNew(l.m, fsys, filter, files, i + 1,
                         IF l.plugin = None THEN Record(result, files[i], FALSE)
                         ELSE Record(result, l.plugin, TRUE))
         ELSE ProcessNew(m, fsys, filter, files, i + 1, result)

\* collect_and_process_new_plugins.  listing[k] is what list_file_with_suffix
\* gives for the k-th plugin folder; filter is the set of paths the predicate accepts
CollectAndProcessNewPlugins(m, fsys, listing, filter, specific) ==
    ProcessNew(m, fsys, filter,
               Flatten([k \in 1..Len(listing) |-> IF specific = None THEN listing[k] ELSE <<specific>>]),
               1, EmptySingle)

RECURSIVE RemoveEach(_, _, _, _, _)
RemoveEach(m, filter, plugin_list, i, result) ==
    IF i > Len(plugin_list) THEN [m |-> m, result |-> result]
    ELSE IF plugin_list[i] \in filter
         THEN LET u == UnloadPluginImpl(m, plugin_list[i]) IN
              RemoveEach(u.m, filter, plugin_list, i + 1, Record(result, plugin_list[i], u.ret))
         ELSE RemoveEach(m, filter, plugin_list, i + 1, result)

\* collect_and_remove_plugins; filter is the set of plugins the predicate accepts
CollectAndRemovePlugins(m, filter, specific) ==
    RemoveEach(m, filter, IF specific = None THEN m.plugins ELSE <<specific>>, 1, EmptySingle)

RECURSIVE ReloadEach(_, _, _, _, _, _)
ReloadEach(m, fsys, filter, plugin_list, i, result) ==
    IF i > Len(plugin_list) THEN [m |-> m, result |-> result]
    ELSE IF m.plug[plugin_list[i]].state \in {READY} /\ plugin_list[i] \in filter
         THEN LET r == ReloadPluginImpl(m, fsys, plugin_list[i]) IN
              ReloadEach(r.m, fsys, filter, plugin_list, i + 1, Record(result, plugin_list[i], r.ret))
         ELSE ReloadEach(m, fsys, filter, plugin_list, i + 1, result)

\* reload_ready_plugins
ReloadReadyPlugins(m, fsys, filter, specific) ==
    ReloadEach(m, fsys, filter, IF specific = None THEN m.plugins ELSE <<specific>>, 1, EmptySingle)

RECURSIVE CheckItems(_, _, _, _)
CheckItems(m, items, i, result) ==
    IF i > Len(items) THEN [m |-> m, result |-> result]
    ELSE CheckItems(IF items[i].success THEN m ELSE UnloadPluginImpl(m, items[i].plugin_id).m,
                    items, i + 1, Record(result, items[i].plugin_id, items[i].success))

\* CheckPluginDependencies recording the failures without unloading the plugins
CheckPluginDependencies_noUnload(m) == [m |-> m, result |-> CheckItems(m, Walk(m), 1, EmptySingle).result]

\* check_plugin_dependencies: the plugins failing the walk are unloaded
CheckPluginDependencies(m) == CheckItems(m, Walk(m), 1, EmptySingle)

(***************************************************************************)
(* __post_plugin_process                                                   *)
(***************************************************************************)
\* ReadyList forgetting the plugins just loaded
ReadyList_reloadedOnly(load, reload, dep) ==
    SelectSeq(reload.succ, LAMBDA id : InSeq(id, dep.succ))

\* the plugins made READY: loaded or reloaded, and passing the dependency check
ReadyList(load, reload, dep) ==
    SelectSeq(load.succ \o reload.succ, LAMBDA id : InSeq(id, dep.succ))

\* LoadEventList in the order the plugins were loaded and reloaded
LoadEventList_inLoadOrder(load, reload, dep) ==
    SelectSeq(load.succ \o reload.succ, LAMBDA id : InSeq(id, dep.succ))

\* the plugins PLUGIN_LOAD goes to, in dispatch order
LoadEventList(load, reload, dep) ==
    SelectSeq(dep.succ, LAMBDA id : id \in Range(load.succ) \cup Range(reload.succ))

\* the plugins taken off after the check, in the order they are handled
UnloadList(unload, reload, dep) == unload.succ \o unload.fail \o reload.fail \o dep.fail

\* ReceivesUnload without the test for plugins loaded by the same operation
ReceivesUnload_always(load, id) == TRUE

\* whether a plugin taken off receives PLUGIN_UNLOAD
ReceivesUnload(load, id) == ~InSeq(id, load.succ)

RECURSIVE ReadyEach(_, _, _)
ReadyEach(m, list, i) ==
    IF i > Len(list) THEN m
    ELSE ReadyEach(SetPlugin(m, list[i], PluginReady(m.plug[list[i]])), list, i + 1)

\* Plugin.receive_event from the manager: the event is logged and handled
ReceiveEvent(m, id, ev) ==
    [m EXCEPT !.events = Append(@, <<ev, id>>), !.plug[id] = PluginReceiveEvent(@, ev)]

RECURSIVE DispatchLoadEach(_, _, _)
DispatchLoadEach(m, list, i) ==
    IF i > Len(list) THEN m
    ELSE DispatchLoadEach(ReceiveEvent(m, list[i], PLUGIN_LOAD), list, i + 1)

RECURSIVE DispatchUnloadEach(_, _, _, _)
DispatchUnloadEach(m, load, list, i) ==
    IF i > Len(list) THEN m
    ELSE IF m.plug[list[i]].state \notin {UNLOADING} THEN [m EXCEPT !.raised = TRUE]
    ELSE LET e == IF ReceivesUnload(load, list[i]) THEN ReceiveEvent(m, list[i], PLUGIN_UNLOAD) ELSE m
         IN DispatchUnloadEach(SetPlugin(e, list[i], PluginRemove(e.plug[list[i]])), load, list, i + 1)

\* the closing assertion: every plugin of the map is READY
AssertAllReady(m) ==
    IF \A i \in 1..Len(m.plugins) : m.plug[m.plugins[i]].state \in {READY}
    THEN m ELSE [m EXCEPT !.raised = TRUE]

RECURSIVE CollectEach(_, _, _)
CollectEach(m, registry, i) ==
    IF i > Len(m.plugins) THEN registry
    ELSE CollectEach(m, Collect(registry, m.plug[m.plugins[i]].reg), i + 1)

\* UpdateRegistry collecting into the registry without clearing it
UpdateRegistry_noClear(m) == [m EXCEPT !.registry = Arrange(CollectEach(m, m.registry, 1))]

\* UpdateRegistry leaving the listener lists as collected
UpdateRegistry_noArrange(m) == [m EXCEPT !.registry = CollectEach(m, EmptyRegistry, 1)]

\* __update_registry: clear, collect from every plugin of the map, arrange
UpdateRegistry(m) == [m EXCEPT !.registry = Arrange(CollectEach(m, EmptyRegistry, 1))]

\* once the result is dropped nothing refers to the Plugin objects taken off the map
Forget(m) == [m EXCEPT !.plug = [i \in Ids |-> IF InSeq(i, m.plugins) THEN m.plug[i] ELSE NoPlugin]]

PostDispatch(m, load, unload, reload, dep) ==
    LET a == ReadyEach(m, ReadyList(load, reload, dep), 1)
        b == DispatchLoadEach(a, LoadEventList(load, reload, dep), 1)
        c == DispatchUnloadEach(b, load, UnloadList(unload, reload, dep), 1)
        d == IF c.raised THEN c ELSE AssertAllReady(c)
    IN IF d.raised THEN d ELSE UpdateRegistry(d)

PostPluginProcess(m, load, unload, reload) ==
    LET chk == CheckPluginDependencies(m) IN
    PostDispatch([chk.m EXCEPT !.result = [load |-> load, unload |-> unload,
                                           reload |-> reload, dep |-> chk.result]],
                 load, unload, reload, chk.result)

(***************************************************************************)
(* Multi-plugin operations and interfaces                                  *)
(***************************************************************************)
LoadedIds(m) == Range(m.plugins)

\* ReloadFilter accepting every plugin whatever the operation
ReloadFilter_everyPlugin(m, fsys, reload_filter) == LoadedIds(m)

\* the plugins the reload filter accepts: all of them for refresh_all_plugins, those
\* whose file changed for refresh_changed_plugins
ReloadFilter(m, fsys, reload_filter) ==
    {id \in LoadedIds(m) : reload_filter = "all" \/ FileChanged(fsys, m.plug[id])}

\* __refresh_plugins; reload_filter is "all" or "changed"
RefreshPlugins(m, fsys, listing, reload_filter) ==
    LET l == CollectAndProcessNewPlugins(m, fsys, listing, Paths, None)
        u == CollectAndRemovePlugins(l.m, {id \in LoadedIds(l.m) : ~FileExists(fsys, l.m.plug[id])}, None)
        r == ReloadReadyPlugins(u.m, fsys, ReloadFilter(u.m, fsys, reload_filter), None)
    IN PostPluginProcess(r.m, l.result, u.result, r.result)

\* PluginManager.load_plugin
MgrLoadPlugin(m, fsys, listing, file_path) ==
    LET l == CollectAndProcessNewPlugins(m, fsys, listing, Paths, file_path)
    IN PostPluginProcess(l.m, l.result, EmptySingle, EmptySingle)

\* PluginManager.unload_plugin
MgrUnloadPlugin(m, id) ==
    LET u == CollectAndRemovePlugins(m, Ids, id)
    IN PostPluginProcess(u.m, EmptySingle, u.result, EmptySingle)

\* PluginManager.reload_plugin
MgrReloadPlugin(m, fsys, id) ==
    LET r == ReloadReadyPlugins(m, fsys, Ids, id)
    IN PostPluginProcess(r.m, EmptySingle, EmptySingle, r.result)

\* os.rename of enable_plugin / disable_plugin
Rename(fsys, from, to) ==
    IF from = to THEN fsys ELSE [fsys EXCEPT ![to] = fsys[from], ![from] = NoFile]

\* PluginManager.enable_plugin: gives the manager and the file system
MgrEnablePlugin(m, fsys, listing, file_path) ==
    LET new_file_path == RemoveDisabledSuffix(file_path) IN
    IF fsys[file_path] # NoFile
    THEN LET renamed == Rename(fsys, file_path, new_file_path)
         IN [m |-> MgrLoadPlugin(BeginOp(m), renamed, listing, new_file_path), fs |-> renamed]
    ELSE [m |-> BeginOp(m), fs |-> fsys]

\* PluginManager.disable_plugin
MgrDisablePlugin(m, fsys, id) ==
    LET path == m.plug[id].file_path
        u == MgrUnloadPlugin(BeginOp(m), id)
    IN [m |-> u,
        fs |-> IF ~u.raised /\ fsys[path] # NoFile THEN Rename(fsys, path, AppendDisabledSuffix(path)) ELSE fsys]

(***************************************************************************)
(* The state machine                                                       *)
(*   fs        the plugin folder: what every path holds                    *)
(*   order     the order os.listdir gives the folder's names in: arbitrary,*)
(*             the same from call to call while the folder is untouched    *)
(*   plugins, plug, fpath, registry   the manager (see InitManager)        *)
(*   synced    an operation was called, and no file of the plugin folder   *)
(*             was added, removed or changed since                         *)
(*   lastOp    the operation that is returning ("none" between two         *)
(*             operations) and whether it recorded a result                *)
(*   result    the PluginOperationResult the returning operation recorded  *)
(*   events, trans, raised   what the returning operation dispatched, the  *)
(*             state changes it made, whether an exception left it         *)
(*   changes, adds   counters of the environment's steps                   *)
(*   rebuild   where __update_registry stands when its steps interleave    *)
(*             with another thread, the registry before it and after it    *)
(*   observed  the listener list a dispatch_event on another thread got    *)
(*   queue     the events waiting in the task queue                        *)
(*   disp      the dispatch_event each worker thread is in                 *)
(*   slot      tls.current_plugin of every thread                          *)
(*   error     the exception the last call of the facade raised            *)
(*   caller    the thread that calls the facade                            *)
(*   now       time.time()                                                 *)
(*   last_queue_full_warn_time   of the InfoReactorManager                 *)
(*   log       the records put_info has logged: level and time             *)
(*   tree, command   the command tree and the string execute is called on  *)
(*   outcome, again  what execute did, and what it did when called again   *)
(*   handed    the context dicts the callbacks were called with, which the  *)
(*             callbacks can keep and write to, in the order of the calls  *)
(*   enqueued, started  the events in the order they were enqueued and in  *)
(*             the order their dispatch began                              *)
(*   nodes, built   the command nodes under construction and the last call *)
(*             of then, runs, requires or redirects                        *)
(*   file_name, data   the plugin file and the metadata dict MetaData is   *)
(*             constructed from                                            *)
(*   metadata  the MetaData constructed                                    *)
(*   rcon      self.rcon of the RconManager: None or one of the connections*)
(*   connections   the RconConnection objects a thread or self.rcon holds  *)
(*   call      the call of the RconManager each thread is in               *)
(*   returned  what the last plugin operation of the facade returned       *)
(*   plugin_folders   self.plugin_folders of the PluginManager             *)
(*   stack     the calls in progress on the reactor worker, innermost last *)
(*   noted     what the last registration call of a listener found         *)
(***************************************************************************)
VARIABLES fs, order, plugins, plug, fpath, registry, synced, lastOp, result, events, trans, raised, changes, adds,
          rebuild, observed, queue, disp, slot, error, enqueued, started, caller,
          now, last_queue_full_warn_time, log, tree, command, outcome, again, handed,
          nodes, built, file_name, data, metadata, rcon, connections, call, returned,
          plugin_folders, stack, noted

mgrVars == <<fs, order, plugins, plug, fpath, registry, synced, lastOp, result, events, trans, raised, changes, adds>>
raceVars == <<rebuild, observed>>
dispVars == <<queue, disp, slot, error, enqueued, started>>
\* the variables the plugin operations leave alone
infoVars == <<now, last_queue_full_warn_time, log>>
cmdVars == <<tree, command, outcome, again, handed>>
bldVars == <<nodes, built>>
metaVars == <<file_name, data, metadata>>
rconVars == <<rcon, connections, call>>
resVars == <<returned>>
foldVars == <<plugin_folders>>
nestVars == <<stack, noted>>
libVars == <<bldVars, metaVars, rconVars, resVars, foldVars, nestVars>>
others == <<raceVars, dispVars, caller, infoVars, cmdVars, libVars>>
\* the variables a plugin operation leaves alone, the current-plugin slots apart
dispBesidesSlot == <<queue, disp, error, enqueued, started>>
besidesSlot == <<raceVars, dispBesidesSlot, caller, infoVars, cmdVars, libVars>>

vars == <<fs, order, plugins, plug, fpath, registry, synced, lastOp, result, events, trans, raised, changes, adds,
          others>>

NoRebuild == [pc |-> "idle"]
NoRead == [read |-> FALSE]
InitRace == rebuild = NoRebuild /\ observed = NoRead

\* the reactor's worker threads, the thread that constructed the manager, and a thread
\* that never ran a listener
Workers == {"w1", "w2"}
Threads == Workers \cup {"main", "fresh"}
\* threading.local() holds no current_plugin attribute for the thread
Unset == "unset"
NoDispatch == [pc |-> "idle"]
NoError == [exc |-> None, method |-> None]
\* self.tls = threading.local(); self.set_current_plugin(None) on the constructing thread
InitDispatch ==
    /\ queue = <<>>
    /\ disp = [w \in Workers |-> NoDispatch]
    /\ slot = [t \in Threads |-> IF t = "main" THEN None ELSE Unset]
    /\ error = NoError
    /\ enqueued = <<>>
    /\ started = <<>>
    /\ caller = "w1"
\* InfoReactorManager.__init__: self.last_queue_full_warn_time = None
\* a time is [time |-> seconds]; NoTime is the None of last_queue_full_warn_time
NoTime == [absent |-> "time"]
InitInfo == now = 0 /\ last_queue_full_warn_time = NoTime /\ log = <<>>
\* execute has not been called
NotRun == [run |-> FALSE]
InitNoCommand == tree = "T1" /\ command = <<>> /\ outcome = NotRun /\ again = NotRun /\ handed = <<>>
InitRest == InitRace /\ InitDispatch /\ InitInfo
\* ArgumentNode.__init__, and the constructors of Literal, Integer and Text
ArgumentNode(kind, name) ==
    [kind |-> kind, name |-> name, literals |-> {}, range |-> <<>>, callback |-> None, requirement |-> TRUE,
     children_literal |-> <<>>, children |-> <<>>, redirect_node |-> None]
Literal(literals) == [ArgumentNode("Literal", None) EXCEPT !.literals = literals]
Integer(name) == ArgumentNode("Integer", name)
Text(name) == ArgumentNode("Text", name)

\* the nodes then, runs, requires and redirects are called on, as constructed
NewNodes == [x |-> Literal({<<"a">>}), y |-> Literal({<<"b">>}), z |-> Integer("n")]
\* no call of then, runs, requires or redirects was made
NoCall == [calls |-> 0, method |-> None, self |-> None, arg |-> None, exc |-> None]
InitBuilder == nodes = NewNodes /\ built = NoCall
\* a .py file name and a dict are written as sequences of characters and as records
PyFile(stem) == stem \o <<".", "p", "y">>
NotADict == [dict |-> FALSE]
NotConstructed == [constructed |-> FALSE]
InitNoMetaData == file_name = PyFile(<<"a">>) /\ data = NotADict /\ metadata = NotConstructed
\* RconManager.__init__: self.rcon = None
RconThreads == {"t1", "t2"}
NoConnection == [absent |-> "connection"]
NoRconCall == [pc |-> "idle"]
\* the RconConnection objects there can be at a time: the one of self.rcon and the one
\* each thread is inside
Connections == {"x", "y", "z"}
\* RconConnection(address, port, password, logger): no socket yet
RconConnection == [socket |-> FALSE]
InitRcon ==
    /\ rcon = NoConnection
    /\ connections = [x \in Connections |-> RconConnection]
    /\ call = [t \in RconThreads |-> NoRconCall]
\* no plugin operation of the facade was called
NotCalled == [called |-> FALSE]
InitResult == returned = NotCalled
\* constant.PLUGIN_FOLDER: the configured plugin folders
PluginFolders == <<"plugins">>
\* set_plugin_folders with the configured plugin folders, called once the manager is
\* constructed
InitPluginFolders == plugin_folders = PluginFolders
\* nothing runs on the reactor worker and no listener has called a registration method
NotNoted == [noted |-> FALSE]
InitNested == stack = <<>> /\ noted = NotNoted
InitLib == InitBuilder /\ InitNoMetaData /\ InitRcon /\ InitResult /\ InitPluginFolders /\ InitNested
InitOthers == InitRest /\ InitNoCommand /\ InitLib


Mgr ==
    [plugins |-> plugins, plug |-> plug, fpath |-> fpath, registry |-> registry,
     result |-> result, events |-> events, trans |-> trans, raised |-> raised]

Commit(m) ==
    /\ plugins' = m.plugins
    /\ plug' = m.plug
    /\ fpath' = m.fpath
    /\ registry' = m.registry
    /\ result' = m.result
    /\ events' = m.events
    /\ trans' = m.trans
    /\ raised' = m.raised

\* set_current_plugin on thread t
SetCurrentPlugin_everyThread(s, t, plugin) == [x \in DOMAIN s |-> plugin]
SetCurrentPlugin(s, t, plugin) == [s EXCEPT ![t] = plugin]

\* Plugin.receive_event runs the lifecycle handlers of the plugin through
\* trigger_listener on the thread that called the operation: once an operation has
\* delivered a lifecycle event the slot of that thread is None
HandlersRan == slot' = IF events' = <<>> THEN slot ELSE SetCurrentPlugin(slot, caller, None)

\* recorded: the operation reached last_operation_result.record(), so that the lists of
\* the manager are its own
\* the folder holds nothing for a refresh to take in, drop or reload: every plugin of the
\* map has its file, as it was loaded, and every other file of the folder throws when it
\* is loaded or declares the id of a plugin of the map
Settled ==
    /\ \A i \in 1..Len(plugins) : FileExists(fs, plug[plugins[i]]) /\ ~FileChanged(fs, plug[plugins[i]])
    /\ \A path \in PyPaths :
          (fs[path] # NoFile /\ fpath[path] = None) => (fs[path].lthrow \/ InSeq(fs[path].id, plugins))

NoOp == [op |-> "none", recorded |-> FALSE]
Op(name) == [op |-> name, recorded |-> TRUE]
\* an operation that returned before __post_plugin_process
NotRecorded(name) == [Op(name) EXCEPT !.recorded = FALSE]
\* no operation is returning: the next one can be called
Quiet == lastOp = NoOp

\* list_file_with_suffix(folder, '.py') for every plugin folder: os.listdir gives the
\* files in an order of its own, here by name ascending or descending
ByName == <<"a", "b", "c", "d">>
Reverse(s) == [i \in 1..Len(s) |-> s[Len(s) + 1 - i]]
Orders == {ByName, Reverse(ByName)}
ListDir(o) == SelectSeq([i \in 1..Len(o) |-> <<o[i], FALSE>>], LAMBDA p : fs[p] # NoFile)
\* every file of the model lies in the folder "plugins"; any other folder is empty
Listing == [k \in 1..Len(plugin_folders) |-> IF plugin_folders[k] = "plugins" THEN ListDir(order) ELSE <<>>]
\* with a specific file the folders are not listed
AnyListing == [k \in 1..Len(plugin_folders) |-> <<>>]

\* the files the plugin folder holds when the manager is constructed
InitFolders == {{"a", "b", "c", "d"}, {"b", "d"}}

InitPlugins ==
    /\ order \in Orders
    /\ fs \in {[p \in Paths |-> IF ~p[2] /\ p[1] \in present THEN BaseContent(p[1]) ELSE NoFile] :
                 present \in InitFolders}
    /\ plugins = InitManager.plugins
    /\ plug = InitManager.plug
    /\ fpath = InitManager.fpath
    /\ registry = InitManager.registry
    /\ result = InitManager.result
    /\ events = <<>>
    /\ trans = {}
    /\ raised = FALSE
    /\ synced = FALSE
    /\ lastOp = NoOp
    /\ changes = 0
    /\ adds = 0

Init == InitPlugins /\ InitOthers

\* a folder whose entries changed lists them in any order
Relisted(fsys) == IF fsys = fs THEN order' = order ELSE order' \in Orders

LoadPlugin(path) ==
    /\ Quiet
    /\ Commit(MgrLoadPlugin(BeginOp(Mgr), fs, AnyListing, path))
    /\ lastOp' = Op("load_plugin")
    /\ synced' = TRUE
    /\ UNCHANGED <<fs, order, changes, adds>>
    /\ HandlersRan
    /\ UNCHANGED besidesSlot

UnloadPlugin(id) ==
    /\ Quiet
    /\ ContainsPluginId(Mgr, id)
    /\ Commit(MgrUnloadPlugin(BeginOp(Mgr), id))
    /\ lastOp' = Op("unload_plugin")
    /\ synced' = TRUE
    /\ UNCHANGED <<fs, order, changes, adds>>
    /\ HandlersRan
    /\ UNCHANGED besidesSlot

ReloadPlugin(id) ==
    /\ Quiet
    /\ ContainsPluginId(Mgr, id)
    /\ Commit(MgrReloadPlugin(BeginOp(Mgr), fs, id))
    /\ lastOp' = Op("reload_plugin")
    /\ synced' = TRUE
    /\ UNCHANGED <<fs, order, changes, adds>>
    /\ HandlersRan
    /\ UNCHANGED besidesSlot

EnablePlugin(path) ==
    /\ Quiet
    /\ LET r == MgrEnablePlugin(Mgr, fs, AnyListing, path) IN Commit(r.m) /\ fs' = r.fs /\ Relisted(r.fs)
    /\ lastOp' = IF fs[path] # NoFile THEN Op("enable_plugin") ELSE NotRecorded("enable_plugin")
    /\ synced' = TRUE
    /\ UNCHANGED <<changes, adds>>
    /\ HandlersRan
    /\ UNCHANGED besidesSlot

DisablePlugin(id) ==
    /\ Quiet
    /\ ContainsPluginId(Mgr, id)
    /\ LET r == MgrDisablePlugin(Mgr, fs, id) IN Commit(r.m) /\ fs' = r.fs /\ Relisted(r.fs)
    /\ lastOp' = Op("disable_plugin")
    /\ synced' = TRUE
    /\ UNCHANGED <<changes, adds>>
    /\ HandlersRan
    /\ UNCHANGED besidesSlot

Refresh(name, reload_filter) ==
    /\ Quiet
    /\ Commit(RefreshPlugins(BeginOp(Mgr), fs, Listing, reload_filter))
    /\ synced' = TRUE
    /\ lastOp' = Op(name)
    /\ UNCHANGED <<fs, order, changes, adds>>
    /\ HandlersRan
    /\ UNCHANGED besidesSlot

RefreshAllPlugins == Refresh("refresh_all_plugins", "all")

RefreshChangedPlugins == Refresh("refresh_changed_plugins", "changed")

\* the operation has returned: its caller has the result, which the manager keeps
\* as its last_operation_result
Return ==
    /\ ~Quiet
    /\ lastOp' = NoOp
    /\ result' = result
    /\ events' = <<>>
    /\ trans' = {}
    /\ raised' = FALSE
    /\ plug' = Forget(Mgr).plug
    /\ UNCHANGED <<fs, order, plugins, fpath, registry, synced, changes, adds>>
    /\ UNCHANGED others

\* the environment writes or rewrites plugins/n.py
WriteFile(n, c) ==
    /\ Quiet
    /\ changes < MaxChanges
    /\ fs[<<n, FALSE>>] # c
    /\ fs' = [fs EXCEPT ![<<n, FALSE>>] = c]
    /\ order' \in Orders
    /\ changes' = changes + 1
    /\ synced' = FALSE
    /\ UNCHANGED <<plugins, plug, fpath, registry, lastOp, result, events, trans, raised, adds>>
    /\ UNCHANGED others

\* the environment deletes a file
DeleteFile(path) ==
    /\ Quiet
    /\ changes < MaxChanges
    /\ fs[path] # NoFile
    /\ fs' = [fs EXCEPT ![path] = NoFile]
    /\ order' \in Orders
    /\ changes' = changes + 1
    /\ synced' = FALSE
    /\ UNCHANGED <<plugins, plug, fpath, registry, lastOp, result, events, trans, raised, adds>>
    /\ UNCHANGED others

\* ServerInterface.add_event_listener called by a listener of plugin id while an
\* event is dispatched: the listener goes to the registry of the current plugin
AddEventListener(id, ev, prio) ==
    /\ Quiet
    /\ adds < MaxAdds
    /\ ContainsPluginId(Mgr, id)
    /\ plug' = [plug EXCEPT ![id] = PluginAddEventListener(@, Listener(id, ev, prio))]
    /\ adds' = adds + 1
    /\ UNCHANGED <<fs, order, plugins, fpath, registry, synced, lastOp, result, events, trans, raised, changes>>
    /\ UNCHANGED others

\* the arguments enable_plugin and disable_plugin are called with
EnablePaths == {<<"a", TRUE>>, <<"a", FALSE>>, <<"d", TRUE>>}
DisableIds == {"A"}

Operation ==
    \/ \E path \in PyPaths : LoadPlugin(path)
    \/ \E id \in Ids : UnloadPlugin(id)
    \/ \E id \in Ids : ReloadPlugin(id)
    \/ \E path \in EnablePaths : EnablePlugin(path)
    \/ \E id \in DisableIds : DisablePlugin(id)
    \/ RefreshAllPlugins
    \/ RefreshChangedPlugins
    \/ Return

FolderChange ==
    \/ \E n \in Names : \E c \in ContentsOf(n) : WriteFile(n, c)
    \/ \E path \in Paths : DeleteFile(path)

Next == Operation \/ FolderChange

Spec == Init /\ [][Next]_vars

\* the plugin folder stays as it is; listeners register further listeners between operations
NextReg == Operation \/ \E id \in Ids, ev \in Events : AddEventListener(id, ev, 2)

SpecReg == Init /\ [][NextReg]_vars

\* the plugin folder changes and listeners register further listeners between refreshes
\* and unloads
NextRefresh ==
    \/ \E id \in Ids : UnloadPlugin(id)
    \/ RefreshAllPlugins
    \/ RefreshChangedPlugins
    \/ Return
    \/ FolderChange
    \/ \E id \in Ids : AddEventListener(id, "e", 2)

\* the plugin folder holds the four files when the manager is constructed
InitRefresh == Init /\ \A n \in Names : fs[<<n, FALSE>>] # NoFile

SpecRefresh == InitRefresh /\ [][NextRefresh]_vars

(***************************************************************************)
(* Properties                                                              *)
(***************************************************************************)
Returning == lastOp.op # "none"
Refreshes == {"refresh_all_plugins", "refresh_changed_plugins"}
InMap(id) == InSeq(id, plugins)
AllReady == \A i \in 1..Len(plugins) : plug[plugins[i]].state = READY
\* the ids the loaded metadata of plugin p names as dependencies
DepIds(p) == {plug[p].meta.deps[k][1] : k \in 1..Len(plug[p].meta.deps)}
Positions(ev, id) == {i \in 1..Len(events) : events[i] = <<ev, id>>}
Received(ev) == {events[i][2] : i \in {k \in 1..Len(events) : events[k][1] = ev}}

\* C1: when a manager operation returns, no exception has left it and every plugin of
\* the plugins map is READY (none is LOADING, LOADED, UNLOADING or UNLOADED).
C1_AllReadyAfterOperation == Returning => (~raised /\ AllReady)

\* C1 witness: a refresh that loaded plugins, unloaded one failing the dependency
\* check, and left plugins in the map
C1_Witness ==
    /\ lastOp.op \in Refreshes
    /\ result.load.succ # <<>>
    /\ result.dep.fail # <<>>
    /\ plugins # <<>>

\* C2: in one operation PLUGIN_LOAD reaches a plugin only after it reached every plugin
\* it depends on that also receives PLUGIN_LOAD in the operation.
C2_LoadDependenciesFirst ==
    \A p \in Received(PLUGIN_LOAD) : \A q \in DepIds(p) \cap Received(PLUGIN_LOAD) :
        \A i \in Positions(PLUGIN_LOAD, p), j \in Positions(PLUGIN_LOAD, q) : j < i

\* C2 witness: three plugins loaded with the dependants first; the events follow the
\* dependencies
C2_Witness ==
    /\ result.load.succ = <<"C", "B", "A">>
    /\ events = <<<<PLUGIN_LOAD, "A">>, <<PLUGIN_LOAD, "B">>, <<PLUGIN_LOAD, "C">>>>

\* C3: in one operation every unloaded dependant receives PLUGIN_UNLOAD before the
\* plugin it depends on does (reverse topological order).
C3_UnloadDependantsFirst ==
    \A p \in Received(PLUGIN_UNLOAD) : \A q \in DepIds(p) \cap Received(PLUGIN_UNLOAD) :
        \A i \in Positions(PLUGIN_UNLOAD, p), j \in Positions(PLUGIN_UNLOAD, q) : i < j

RECURSIVE ReachIn(_, _)
\* the plugins reached from the set S along at most n dependency edges inside the map
ReachIn(S, n) ==
    IF n = 0 THEN S
    ELSE ReachIn(S \cup UNION {DepIds(p) \cap Range(plugins) : p \in S}, n - 1)
OnCycle(p) == p \in ReachIn(DepIds(p) \cap Range(plugins), Cardinality(Ids))
DependencyClosed ==
    \A i \in 1..Len(plugins) :
        LET p == plugins[i] IN
        /\ \A k \in 1..Len(plug[p].meta.deps) :
              LET d == plug[p].meta.deps[k] IN
              InMap(d[1]) /\ Accept(d[2], plug[d[1]].meta.ver)
        /\ ~OnCycle(p)

\* C4: when a manager operation returns, every dependency of every plugin of the map is
\* in the map with an accepted version, and no plugin of the map is on a dependency cycle.
C4_DependencyClosed == Returning => DependencyClosed

\* C4 witness: a refresh whose dependency check failed three plugins on a cycle
C4_Witness ==
    /\ lastOp.op \in Refreshes
    /\ Len(result.dep.fail) = 3
    /\ \A i \in 1..3 : plug[result.dep.fail[i]].state = UNLOADED

\* the lists of the operation that is returning: those it recorded, and empty ones when
\* it returned before recording any
OwnResult == IF lastOp.recorded THEN result ELSE EmptyResult
TakenOff == Range(OwnResult.unload.succ) \cup Range(OwnResult.unload.fail)
                \cup Range(OwnResult.reload.fail) \cup Range(OwnResult.dep.fail)
Fresh == Range(OwnResult.load.succ) \cup Range(OwnResult.reload.succ)

\* C5: in one operation a plugin receives at most one lifecycle event, once:
\* PLUGIN_LOAD iff it was loaded or reloaded and passed the dependency check,
\* PLUGIN_UNLOAD iff it was unloaded and not loaded by this operation.
C5_ExactlyOnceEvents ==
    Returning =>
        /\ \A i, j \in 1..Len(events) : events[i][2] = events[j][2] => i = j
        /\ Received(PLUGIN_LOAD) = Fresh \cap Range(OwnResult.dep.succ)
        /\ Received(PLUGIN_UNLOAD) = TakenOff \ Range(OwnResult.load.succ)

\* C5 witness: one operation loads a plugin that fails the dependency check (no event
\* for it) and dispatches PLUGIN_LOAD and PLUGIN_UNLOAD to others
C5_Witness ==
    /\ Range(result.load.succ) \cap Range(result.dep.fail) # {}
    /\ Received(PLUGIN_LOAD) # {}
    /\ Received(PLUGIN_UNLOAD) # {}

ChainTransitions ==
    {<<UNINITIALIZED, LOADING>>, <<LOADING, LOADED>>, <<LOADED, READY>>,
     <<READY, UNLOADING>>, <<UNLOADING, UNLOADED>>}

\* C6 as claimed: every state change of a plugin is a step of the chain
\* UNINITIALIZED, LOADING, LOADED, READY, UNLOADING, UNLOADED, or LOADING->UNLOADING.
C6_OnlyChainTransitions == trans \subseteq ChainTransitions \cup {<<LOADING, UNLOADING>>}

\* the operation rejected a file whose plugin throws while it is unloaded: the file
\* loaded and declared the id of a plugin of the map
RejectedThrowing ==
    \E i \in 1..Len(OwnResult.load.fail) :
        LET c == fs[OwnResult.load.fail[i]] IN c # NoFile /\ ~c.lthrow /\ c.uthrow

\* C6 amended: every state change is a step of the chain, LOADING->UNLOADING or
\* LOADED->UNLOADING, or LOADED->UNLOADED for a plugin rejected as a duplicate id that
\* throws while it is unloaded; no plugin goes READY->LOADED, and no other plugin
\* reaches UNLOADED from a state other than UNLOADING.
C6_ChainWithLoadedUnloading ==
    /\ trans \subseteq ChainTransitions \cup {<<LOADING, UNLOADING>>, <<LOADED, UNLOADING>>, <<LOADED, UNLOADED>>}
    /\ <<LOADED, UNLOADED>> \in trans => RejectedThrowing

\* C6 witness: an operation that unloaded a plugin that was LOADED and removed it, and
\* removed a duplicate that was LOADED still, its unload having thrown
C6_Witness ==
    /\ <<LOADED, UNLOADING>> \in trans
    /\ <<UNLOADING, UNLOADED>> \in trans
    /\ <<LOADED, UNLOADED>> \in trans
    /\ <<LOADED, READY>> \in trans

\* the file at path loads without exception, is not loaded yet, and declares the id of
\* a plugin of the map
DuplicateFile(path) ==
    /\ fs[path] # NoFile
    /\ ~fs[path].lthrow
    /\ fpath[path] = None
    /\ ContainsPluginId(Mgr, fs[path].id)

C7_Step ==
    \A path \in PyPaths :
        (DuplicateFile(path) /\ LoadPlugin(path)) =>
            /\ InSeq(path, result'.load.fail)
            /\ result'.load.succ = <<>>
            /\ plugins' = plugins
            /\ fpath' = fpath
            /\ plug'[fs[path].id] = plug[fs[path].id]
            /\ events' = <<>>

\* C7: load_plugin on a file declaring the id of a plugin already in the map records
\* the path in the load failures, leaves the plugins map and the file-path map
\* unchanged, leaves the incumbent Plugin as it was, and dispatches no event.
C7_DuplicateIdRejected == [][C7_Step]_vars

\* C7 witness: load_plugin has returned having rejected a file that loads fine and
\* declares the id of the plugin that is still in the map, loaded from another file
C7_Witness ==
    /\ lastOp.op = "load_plugin"
    /\ Len(result.load.fail) = 1
    /\ LET path == result.load.fail[1] IN
          /\ fs[path] # NoFile
          /\ ~fs[path].lthrow
          /\ fpath[path] = None
          /\ InMap(fs[path].id)
          /\ plug[fs[path].id].file_path # path
          /\ plug[fs[path].id].state = READY

\* the plugins left in the map are READY and nothing was raised
SoundAfter == ~raised' /\ \A i \in 1..Len(plugins') : plug'[plugins'[i]].state = READY
ThrowingFile(path) == fs[path] # NoFile /\ fs[path].lthrow /\ fpath[path] = None
ThrowsOnUnload(id) == ContainsPluginId(Mgr, id) /\ plug[id].meta.uthrow
ThrowsOnReload(id) ==
    /\ ContainsPluginId(Mgr, id)
    /\ \/ plug[id].meta.uthrow
       \/ fs[plug[id].file_path] = NoFile
       \/ fs[plug[id].file_path] # NoFile /\ fs[plug[id].file_path].lthrow
Gone(id) == ~InSeq(id, plugins') /\ fpath'[plug[id].file_path] = None

C8_Step ==
    /\ \A path \in PyPaths :
          (ThrowingFile(path) /\ LoadPlugin(path)) =>
              /\ plugins' = plugins
              /\ fpath' = fpath
              /\ InSeq(path, result'.load.fail)
              /\ SoundAfter
    /\ \A id \in Ids :
          (ThrowsOnUnload(id) /\ UnloadPlugin(id)) =>
              /\ Gone(id)
              /\ InSeq(id, result'.unload.fail)
              /\ SoundAfter
    /\ \A id \in Ids :
          (ThrowsOnReload(id) /\ ReloadPlugin(id)) =>
              /\ Gone(id)
              /\ plug'[id].state = UNLOADED
              /\ InSeq(id, result'.reload.fail)
              /\ SoundAfter

\* C8: a load that throws leaves the plugins map and the file-path map unchanged and
\* records the path in the load failures; an unload that throws still takes the plugin
\* off both maps and records it in the unload failures; a reload that throws unloads the
\* plugin, takes it off both maps and records it in the reload failures; each time the
\* operation returns without raising and the plugins left are READY.
C8_ThrowingPluginContained == [][C8_Step]_vars

\* C8 witness: reload_plugin has returned with the plugin in the reload failures,
\* UNLOADED, and other plugins left in the map
C8_Witness ==
    /\ lastOp.op = "reload_plugin"
    /\ Len(result.reload.fail) = 1
    /\ plug[result.reload.fail[1]].state = UNLOADED
    /\ plug[result.reload.fail[1]].meta.uthrow
    /\ plugins # <<>>

RECURSIVE Count(_, _)
Count(s, x) == IF s = <<>> THEN 0 ELSE (IF Head(s) = x THEN 1 ELSE 0) + Count(Tail(s), x)
RECURSIVE CountInPlugins(_, _)
\* how many times the per-plugin registries of the plugins ids hold the listener l
CountInPlugins(ids, l) ==
    IF ids = <<>> THEN 0 ELSE Count(plug[Head(ids)].reg, l) + CountInPlugins(Tail(ids), l)
Listeners == {Listener(id, ev, prio) : id \in Ids, ev \in Events, prio \in Priorities}
RegistryIsUnion ==
    \A ev \in Events :
        /\ Range(registry[ev]) \subseteq {l \in Listeners : l.ev = ev}
        /\ \A l \in Listeners :
              Count(registry[ev], l) = IF l.ev = ev THEN CountInPlugins(plugins, l) ELSE 0

C9_StepClaimed ==
    (synced /\ RefreshChangedPlugins) =>
        /\ result'.load.succ = <<>>
        /\ result'.unload.succ = <<>>
        /\ result'.reload.succ = <<>>
        /\ result'.dep.succ = <<>>
        /\ events' = <<>>
        /\ plugins' = plugins
        /\ registry' = registry

\* C9 as claimed: refresh_changed_plugins called when no file of the plugin folder was
\* added, removed or changed since the operation before leaves the four success lists
\* empty, dispatches no event and leaves the plugins map and the aggregate registry
\* unchanged.
C9_RefreshChangedNoOp == [][C9_StepClaimed]_vars

\* no listener leaves the aggregate registry
RegistryKeeps == \A ev \in Events : \A l \in Listeners : Count(registry'[ev], l) >= Count(registry[ev], l)

C9_Step ==
    (Settled /\ RefreshChangedPlugins) =>
        /\ result'.load.succ = <<>>
        /\ result'.unload = EmptySingle
        /\ result'.reload = EmptySingle
        /\ result'.dep.fail = <<>>
        /\ Range(result'.dep.succ) = Range(plugins)
        /\ events' = <<>>
        /\ plugins' = plugins
        /\ RegistryIsUnion'
        /\ RegistryKeeps
        /\ RegistryIsUnion => registry' = registry

\* in every other case the refresh loads, unloads or reloads a plugin or changes the map
C9_StepOtherwise ==
    (~Settled /\ RefreshChangedPlugins) =>
        ~ /\ result'.load.succ = <<>>
          /\ result'.unload.succ = <<>>
          /\ result'.reload.succ = <<>>
          /\ plugins' = plugins

\* C9 amended: refresh_changed_plugins called when the file of every plugin of the map
\* is present and unchanged and every other file of the folder fails to load or carries
\* the id of a plugin of the map loads, unloads and reloads nothing, lists exactly the
\* plugins of the map as dependency-check successes, dispatches no event and leaves the
\* plugins map unchanged; the aggregate registry keeps its listeners and takes in those
\* registered since it was last rebuilt. Called in any other case, it loads, unloads or
\* reloads a plugin or changes the map, whether or not a file changed since the
\* operation before.
C9_RefreshChangedKeepsSet == [][C9_Step /\ C9_StepOtherwise]_vars

\* C9 witness: such a refresh_changed_plugins has returned, having tried again a file
\* that is rejected, the plugins of the map being the dependency-check successes and a
\* listener registered between two operations being in the aggregate registry
C9_Witness ==
    /\ lastOp = Op("refresh_changed_plugins")
    /\ Settled
    /\ result.load = [succ |-> <<>>, fail |-> result.load.fail]
    /\ result.unload = EmptySingle
    /\ result.reload = EmptySingle
    /\ result.dep.fail = <<>>
    /\ result.load.fail # <<>>
    /\ Len(result.dep.succ) >= 2
    /\ Range(result.dep.succ) = Range(plugins)
    /\ events = <<>>
    /\ adds > 0
    /\ \E i \in 1..Len(registry["e"]) : registry["e"][i].prio = 2

\* C10 as claimed: when a manager operation returns, the aggregate listener list of
\* every event id is the multiset union of the lists of the plugins of the map.
C10_RegistryIsUnion == Returning => RegistryIsUnion

NoFileEnabled == \E path \in EnablePaths : fs[path] = NoFile /\ EnablePlugin(path)
C10_Step == (Quiet /\ lastOp' # NoOp /\ ~NoFileEnabled) => RegistryIsUnion'

\* C10 amended: when a manager operation other than enable_plugin on a path holding no
\* file returns, the aggregate listener list of every event id is the multiset union of
\* the lists of the plugins of the map, the listeners registered during the PLUGIN_LOAD
\* dispatch of the operation included.
C10_RegistryIsUnionAfterProcess == [][C10_Step]_vars

\* C10 witness: an operation has returned having dispatched PLUGIN_LOAD to a plugin
\* that registered a listener in it, another plugin of the map holding a listener
\* registered between operations; the aggregate holds both
C10_Witness ==
    /\ Returning
    /\ \E p \in Received(PLUGIN_LOAD) : plug[p].meta.reg /\ InSeq(OnLoadListener(p), registry["e"])
    /\ \E q \in Range(plugins), ev \in Events :
          InSeq(Listener(q, ev, 2), plug[q].reg) /\ InSeq(Listener(q, ev, 2), registry[ev])

(***************************************************************************)
(* The registry rebuild and a dispatch on another thread                   *)
(* __update_registry works on the one registry object in three kinds of    *)
(* steps: clear, collect per plugin, arrange.  dispatch_event reads the    *)
(* listener list of its event from the same object.                        *)
(***************************************************************************)
\* a manager operation up to its call of __update_registry
Operate(name, m) ==
    /\ Quiet
    /\ rebuild = NoRebuild
    /\ plugins' = m.plugins
    /\ plug' = m.plug
    /\ fpath' = m.fpath
    /\ result' = m.result
    /\ events' = m.events
    /\ trans' = m.trans
    /\ raised' = m.raised
    /\ rebuild' = IF m.raised THEN NoRebuild
                  ELSE [pc |-> "clear", op |-> name, i |-> 1, before |-> registry, after |-> m.registry]
    /\ lastOp' = IF m.raised THEN Op(name) ELSE lastOp
    /\ UNCHANGED <<fs, order, registry, synced, changes, adds, observed>>
    /\ HandlersRan
    /\ UNCHANGED <<dispBesidesSlot, caller, infoVars, cmdVars, libVars>>

\* self.registry_storage.clear()
RebuildClear ==
    /\ rebuild.pc = "clear"
    /\ registry' = EmptyRegistry
    /\ rebuild' = [rebuild EXCEPT !.pc = "collect"]
    /\ UNCHANGED <<fs, order, plugins, plug, fpath, synced, lastOp, result, events, trans, raised, changes, adds, observed>>
    /\ UNCHANGED <<dispVars, caller, infoVars, cmdVars, libVars>>

\* self.registry_storage.collect(plugin.plugin_registry) for the next plugin
RebuildCollect ==
    /\ rebuild.pc = "collect"
    /\ rebuild.i <= Len(plugins)
    /\ registry' = Collect(registry, plug[plugins[rebuild.i]].reg)
    /\ rebuild' = [rebuild EXCEPT !.i = @ + 1]
    /\ UNCHANGED <<fs, order, plugins, plug, fpath, synced, lastOp, result, events, trans, raised, changes, adds, observed>>
    /\ UNCHANGED <<dispVars, caller, infoVars, cmdVars, libVars>>

\* self.registry_storage.arrange(), and the operation returns
RebuildArrange ==
    /\ rebuild.pc = "collect"
    /\ rebuild.i > Len(plugins)
    /\ registry' = Arrange(registry)
    /\ rebuild' = NoRebuild
    /\ lastOp' = Op(rebuild.op)
    /\ synced' = TRUE
    /\ UNCHANGED <<fs, order, plugins, plug, fpath, result, events, trans, raised, changes, adds, observed>>
    /\ UNCHANGED <<dispVars, caller, infoVars, cmdVars, libVars>>

\* the thread of the dispatch_event that runs beside the operation: the other worker
Dispatcher == "w2"

\* PluginManager.dispatch_event on another thread reads the listener list of its event
DispatchRead(ev) ==
    /\ observed = NoRead
    /\ observed' = [read |-> TRUE, ev |-> ev, list |-> registry[ev],
                    old |-> IF rebuild = NoRebuild THEN registry[ev] ELSE rebuild.before[ev],
                    new |-> IF rebuild = NoRebuild THEN registry[ev] ELSE rebuild.after[ev]]
    /\ UNCHANGED <<fs, order, plugins, plug, fpath, registry, synced, lastOp, result, events, trans, raised,
                   changes, adds, rebuild>>
    /\ UNCHANGED <<dispVars, caller, infoVars, cmdVars, libVars>>

\* that dispatch_event has gone through its list: trigger_listener ran for every listener
\* of it and left the current plugin of the thread None
DispatchEnd ==
    /\ observed # NoRead
    /\ observed' = NoRead
    /\ slot' = IF observed.list = <<>> THEN slot ELSE SetCurrentPlugin(slot, Dispatcher, None)
    /\ UNCHANGED <<fs, order, plugins, plug, fpath, registry, synced, lastOp, result, events, trans, raised,
                   changes, adds, rebuild>>
    /\ UNCHANGED <<dispBesidesSlot, caller, infoVars, cmdVars, libVars>>

RaceOperation ==
    \/ Operate("refresh_all_plugins", RefreshPlugins(BeginOp(Mgr), fs, Listing, "all"))
    \/ \E id \in Ids : ContainsPluginId(Mgr, id) /\ Operate("unload_plugin", MgrUnloadPlugin(BeginOp(Mgr), id))
    \/ \E id \in Ids : ContainsPluginId(Mgr, id) /\ Operate("reload_plugin", MgrReloadPlugin(BeginOp(Mgr), fs, id))

NextRace ==
    \/ RaceOperation
    \/ RebuildClear
    \/ RebuildCollect
    \/ RebuildArrange
    \/ Return
    \/ \E id \in Ids, ev \in Events : rebuild = NoRebuild /\ AddEventListener(id, ev, 2)
    \/ \E ev \in Events : DispatchRead(ev)
    \/ DispatchEnd

SpecRace == Init /\ [][NextRace]_vars

\* the rebuild in steps ends with the registry the operation in one step gives
RebuildAgrees == [][RebuildArrange => registry' = rebuild.after]_vars

\* C11: the listener list a dispatch_event reads while a manager operation rebuilds the
\* registry is the complete list of its event from before the rebuild or the complete
\* list from after it.
C11_DispatchSeesWholeRegistry ==
    observed # NoRead => observed.list \in {observed.old, observed.new}

(***************************************************************************)
(* Event dispatch                                                          *)
(* ServerInterface.dispatch_event puts the dispatch in the task queue; a   *)
(* worker takes it and runs PluginManager.dispatch_event, which goes       *)
(* through the listener list of the event and triggers every listener.     *)
(* What a listener does is the plugin's own code: it returns, throws, or   *)
(* calls add_event_listener and returns.                                   *)
(***************************************************************************)
Behaviours ==
    {[kind |-> "return"], [kind |-> "throw"]}
        \cup {[kind |-> "add", ev |-> ev, prio |-> prio] : ev \in Events, prio \in Priorities}

\* ServerInterface.__get_current_plugin on thread t: get_current_running_plugin reads
\* tls.current_plugin, an attribute the thread has only once set_current_plugin ran on it
GetCurrentPlugin(s, t) ==
    IF s[t] = Unset THEN [plugin |-> None, exc |-> "AttributeError"]
    ELSE IF s[t] \in Ids THEN [plugin |-> s[t], exc |-> None]
    ELSE [plugin |-> None, exc |-> "IllegalCall"]

\* the except clause of trigger_listener: whether the listener's exception leaves it
LeavesTrigger_noExcept(b) == b.kind = "throw"
LeavesTrigger(b) == FALSE

\* the listeners of the event in the registries of the plugins of the map, in the order
\* of their registration
RegisteredFor(ev) == CollectEach(Mgr, EmptyRegistry, 1)[ev]

AllIdle == \A w \in Workers : disp[w] = NoDispatch

\* ServerInterface.dispatch_event from a thread that is no worker: the task is enqueued
Enqueue(ev) ==
    /\ Len(enqueued) < MaxEvents
    /\ queue' = Append(queue, ev)
    /\ enqueued' = Append(enqueued, ev)
    /\ UNCHANGED <<mgrVars, raceVars, caller, infoVars, cmdVars, libVars, disp, slot, error, started>>

\* worker w takes the next task; PluginManager.dispatch_event gets the listener list
DispatchBegin(w) ==
    /\ Quiet
    /\ disp[w] = NoDispatch
    /\ queue # <<>>
    /\ disp' = [disp EXCEPT ![w] =
                   [pc |-> "loop", ev |-> Head(queue), list |-> registry[Head(queue)], i |-> 1,
                    invoked |-> <<>>, thrown |-> 0, raised |-> FALSE,
                    registered |-> RegisteredFor(Head(queue))]]
    /\ queue' = Tail(queue)
    /\ started' = Append(started, Head(queue))
    /\ UNCHANGED <<mgrVars, raceVars, caller, infoVars, cmdVars, libVars, slot, error, enqueued>>

\* trigger_listener up to the call of the listener
TriggerListener(w) ==
    /\ disp[w].pc = "loop"
    /\ ~disp[w].raised
    /\ disp[w].i <= Len(disp[w].list)
    /\ slot' = SetCurrentPlugin(slot, w, disp[w].list[disp[w].i].plugin)
    /\ disp' = [disp EXCEPT ![w].pc = "exec"]
    /\ UNCHANGED <<mgrVars, raceVars, caller, infoVars, cmdVars, libVars, queue, error, enqueued, started>>

\* listener.execute(*args) with what the listener does, then except and finally
ListenerExecute(w, b) ==
    /\ disp[w].pc = "exec"
    /\ LET d == disp[w]
           cur == GetCurrentPlugin(slot, w)
           l == Listener(cur.plugin, b.ev, b.prio)
       IN
          /\ IF b.kind = "add"
             THEN /\ adds < MaxAdds
                  /\ cur.exc = None
                  /\ plug' = [plug EXCEPT ![cur.plugin] = PluginAddEventListener(@, l)]
                  /\ adds' = adds + 1
             ELSE UNCHANGED <<plug, adds>>
          /\ synced' = synced
          /\ disp' = [disp EXCEPT ![w] =
                         [d EXCEPT !.pc = "loop", !.i = @ + 1, !.invoked = Append(@, d.list[d.i]),
                                   !.thrown = IF @ = 0 /\ b.kind = "throw" THEN d.i ELSE @,
                                   !.raised = LeavesTrigger(b)]]
    /\ slot' = SetCurrentPlugin(slot, w, None)
    /\ UNCHANGED <<fs, order, plugins, fpath, registry, lastOp, result, events, trans, raised, changes>>
    /\ UNCHANGED <<raceVars, caller, infoVars, cmdVars, libVars, queue, error, enqueued, started>>

\* dispatch_event returns, or the exception that left trigger_listener leaves it
DispatchReturn(w) ==
    /\ disp[w].pc = "loop"
    /\ disp[w].raised \/ disp[w].i > Len(disp[w].list)
    /\ disp' = [disp EXCEPT ![w] = NoDispatch]
    /\ UNCHANGED <<mgrVars, raceVars, caller, infoVars, cmdVars, libVars, queue, slot, error, enqueued, started>>

NextDispatch ==
    \/ AllIdle /\ RefreshAllPlugins
    \/ AllIdle /\ RefreshChangedPlugins
    \/ AllIdle /\ WriteFile("b", BNeedsA2)
    \/ Return
    \/ \E ev \in Events : Enqueue(ev)
    \/ \E w \in Workers : DispatchBegin(w)
    \/ \E w \in Workers : TriggerListener(w)
    \/ \E w \in Workers, b \in Behaviours : ListenerExecute(w, b)
    \/ \E w \in Workers : DispatchReturn(w)

\* the manager is constructed over a plugin folder that holds b.py and d.py
InitTwoPlugins == Init /\ \A n \in Names : fs[<<n, FALSE>>] # NoFile <=> n \in {"b", "d"}

SpecDispatch == InitTwoPlugins /\ [][NextDispatch]_vars

\* the two sequences hold the same elements, each as often
SameBag(s, t) == \A x \in Range(s) \cup Range(t) : Count(s, x) = Count(t, x)

\* C12: the listeners invoked for an event are the listeners registered when its
\* dispatch begins: a listener added through add_event_listener during the dispatch of
\* an earlier event is among them without a manager operation in between.
C12_InvokedAreRegistered ==
    \A w \in Workers : disp[w] # NoDispatch => SameBag(disp[w].list, disp[w].registered)

\* the first place of x in s
FirstPos(s, x) == CHOOSE i \in 1..Len(s) : s[i] = x /\ \A j \in 1..(i - 1) : s[j] # x

\* the listeners worker w has invoked came in ascending priority, listeners of one
\* priority in the order of their registration
InvokedInOrder(w) ==
    LET d == disp[w] IN
    \A i, j \in 1..Len(d.invoked) : i < j =>
        /\ d.invoked[i].prio <= d.invoked[j].prio
        /\ d.invoked[i].prio = d.invoked[j].prio =>
              FirstPos(d.registered, d.invoked[i]) <= FirstPos(d.registered, d.invoked[j])

\* worker w runs one listener at a time: the listeners before the current one have
\* finished, the current one is the only one running
OneAtATime(w) ==
    LET d == disp[w] IN
    /\ d.invoked = SubSeq(d.list, 1, d.i - 1)
    /\ d.pc = "exec" => d.i <= Len(d.list) /\ slot[w] = d.list[d.i].plugin

\* C13: the listeners of one event are invoked one after the other on the dispatching
\* thread, in ascending priority and among equal priorities in the order of their
\* registration; the dispatches of the enqueued events begin in the order the events
\* were enqueued.
C13_ListenersInOrder ==
    /\ \A w \in Workers : disp[w] # NoDispatch => InvokedInOrder(w) /\ OneAtATime(w)
    /\ Len(started) <= Len(enqueued)
    /\ started = SubSeq(enqueued, 1, Len(started))

\* a dispatch has invoked three listeners, two plugins' listeners of one priority and
\* one that the sort moved behind them, in the second dispatch of the run
C13_Witness ==
    \E w \in Workers :
        /\ disp[w] # NoDispatch
        /\ disp[w].pc = "loop"
        /\ Len(disp[w].invoked) >= 3
        /\ disp[w].invoked = disp[w].list
        /\ disp[w].invoked # disp[w].registered
        /\ \E i, j, k \in 1..Len(disp[w].invoked) :
              /\ i < j /\ j < k
              /\ disp[w].invoked[i].prio = disp[w].invoked[j].prio
              /\ disp[w].invoked[i].plugin # disp[w].invoked[j].plugin
              /\ disp[w].invoked[j].prio < disp[w].invoked[k].prio
        /\ Len(started) = 2

\* worker w is at the end of the loop of dispatch_event, or an exception takes it out
Leaving(d) == d.pc = "loop" /\ (d.raised \/ d.i > Len(d.list))

\* C14: a listener that throws does not take dispatch_event with it: dispatch_event
\* ends by returning, after every listener of the list, those after the throwing one
\* included, was invoked exactly once.
C14_ThrowingListenerContained ==
    \A w \in Workers : Leaving(disp[w]) => ~disp[w].raised /\ disp[w].invoked = disp[w].list

\* a dispatch is about to return: a listener threw and the listeners after it were invoked
C14_Witness ==
    \E w \in Workers :
        /\ disp[w] # NoDispatch
        /\ disp[w].pc = "loop"
        /\ disp[w].i > Len(disp[w].list)
        /\ disp[w].thrown >= 1
        /\ disp[w].thrown < Len(disp[w].invoked)
        /\ disp[w].invoked = disp[w].list

Executing(d) == d.pc = "exec"

\* the step is a plugin operation whose lifecycle handlers went through trigger_listener
DeliversLifecycle == Quiet /\ lastOp' # NoOp /\ events' # <<>>

\* what one step may do to the current-plugin slots: the worker that calls a listener
\* has the listener's plugin in its slot, the worker whose listener has returned or
\* thrown has None, the thread of a plugin operation has None once the lifecycle handlers
\* of the operation have returned, and no other slot changes
SlotStep ==
    \A t \in Threads :
        IF t \in Workers /\ ~Executing(disp[t]) /\ Executing(disp'[t])
        THEN slot'[t] = disp'[t].list[disp'[t].i].plugin
        ELSE IF t \in Workers /\ Executing(disp[t]) /\ ~Executing(disp'[t])
        THEN slot'[t] = None
        ELSE IF t = caller /\ DeliversLifecycle
        THEN slot'[t] = None
        ELSE slot'[t] = slot[t]

\* C15: trigger_listener sets the current-plugin slot of the calling thread to the
\* listener's plugin before the listener runs, the slot is None when trigger_listener
\* has returned, whether the listener returned or threw, and the slot of no other thread
\* is changed.
C15_CurrentPluginSlot == [][SlotStep]_vars

\* both workers are in a listener, of different plugins, and one of them has had a
\* listener throw before
C15_Witness ==
    /\ \A w \in Workers : Executing(disp[w])
    /\ slot["w1"] \in Ids
    /\ slot["w2"] \in Ids
    /\ slot["w1"] # slot["w2"]
    /\ \E w \in Workers : disp[w].thrown >= 1
    /\ slot["main"] = None

(***************************************************************************)
(* The facade (ServerInterface) called from any thread                     *)
(***************************************************************************)
\* __assert_info_reactor_thread passes on thread t: is_on_info_reactor_thread()
OnInfoReactorThread_anyThread(t) == TRUE
OnInfoReactorThread(t) == t \in Workers

\* the call raises: nothing but the exception comes of it
Raise(exc, method) ==
    /\ error' = [exc |-> exc, method |-> method]
    /\ UNCHANGED <<mgrVars, raceVars, caller, infoVars, cmdVars, libVars, queue, disp, slot, enqueued, started>>

\* another thread calls the facade next
Switch(t) ==
    /\ Quiet
    /\ error = NoError
    /\ caller # t
    /\ caller' = t
    /\ UNCHANGED <<mgrVars, raceVars, dispVars, infoVars, cmdVars, libVars>>

\* a plugin operation of the facade: __assert_info_reactor_thread(), then the manager's
\* operation
Facade(method, operation) ==
    /\ Quiet
    /\ error = NoError
    /\ IF OnInfoReactorThread(caller) THEN operation ELSE Raise("RuntimeError", method)

PluginMethods ==
    {"load_plugin", "enable_plugin", "reload_plugin", "disable_plugin", "refresh_all_plugins",
     "refresh_changed_plugins"}
RegistrationMethods == {"add_help_message", "add_event_listener", "add_command"}

\* a registration method of the facade called outside any listener: __get_current_plugin
\* raises and nothing is registered
Register(method) ==
    /\ Quiet
    /\ error = NoError
    /\ caller \in Workers => disp[caller].pc # "exec"
    /\ GetCurrentPlugin(slot, caller).exc # None
    /\ Raise(GetCurrentPlugin(slot, caller).exc, method)

\* the caller has the exception
Handled ==
    /\ error # NoError
    /\ error' = NoError
    /\ UNCHANGED <<mgrVars, raceVars, caller, infoVars, cmdVars, libVars, queue, disp, slot, enqueued, started>>

NextFacade ==
    \/ \E t \in Threads : Switch(t)
    \/ \E path \in PyPaths : Facade("load_plugin", LoadPlugin(path))
    \/ \E path \in EnablePaths : Facade("enable_plugin", EnablePlugin(path))
    \/ \E id \in Ids : Facade("reload_plugin", ReloadPlugin(id))
    \/ \E id \in DisableIds : Facade("disable_plugin", DisablePlugin(id))
    \/ Facade("refresh_all_plugins", RefreshAllPlugins)
    \/ Facade("refresh_changed_plugins", RefreshChangedPlugins)
    \/ Return
    \/ \E method \in RegistrationMethods : Register(method)
    \/ Handled

SpecFacade == Init /\ [][NextFacade]_vars

\* C16: a registration method called on a thread with no current plugin raises
\* IllegalCall, whichever thread it is: the constructing thread, a reactor thread
\* outside a listener, or a thread that never ran a listener.
C16_NoPluginRaisesIllegalCall ==
    error.method \in RegistrationMethods => error.exc = "IllegalCall"

\* a plugin operation of the facade is called off the info reactor thread in this step
OffThread == caller \notin Workers

\* C17: a plugin operation of the facade called off the info reactor thread raises
\* RuntimeError and nothing of the manager, of the plugins or of the folder changes.
C17_OffThreadRaises ==
    [][OffThread =>
          /\ UNCHANGED mgrVars
          /\ error'.method \in PluginMethods => error'.exc = "RuntimeError"]_vars

\* every plugin operation of the facade has raised RuntimeError on some thread off the
\* reactor: here one of them, with plugins loaded before
C17_Witness ==
    /\ caller = "fresh"
    /\ error.exc = "RuntimeError"
    /\ error.method = "reload_plugin"
    /\ plugins # <<>>

(***************************************************************************)
(* InfoReactorManager.put_info on a task queue that may be full            *)
(***************************************************************************)
\* the logging method put_info picks when the queue is full
LoggingMethod_alwaysWarning(last, current_time) == "warning"
LoggingMethod(last, current_time) ==
    IF last = NoTime THEN "warning"
    ELSE IF current_time - last.time >= REACTOR_QUEUE_FULL_WARN_INTERVAL_SEC THEN "warning"
    ELSE "debug"

\* put_info: add_info_task puts the task in the queue or raises queue.Full; then the
\* info is dropped and the drop is logged
PutInfo ==
    /\ IF Len(queue) < MaxQueue
       THEN /\ queue' = Append(queue, "info")
            /\ UNCHANGED <<last_queue_full_warn_time, log>>
       ELSE LET current_time == now
                logging_method == LoggingMethod(last_queue_full_warn_time, current_time)
            IN /\ Len(log) < MaxDrops
               /\ last_queue_full_warn_time' =
                      IF logging_method = "warning" THEN [time |-> current_time]
                      ELSE last_queue_full_warn_time
               /\ log' = Append(log, [level |-> logging_method, time |-> current_time])
               /\ UNCHANGED queue
    /\ UNCHANGED <<mgrVars, raceVars, caller, cmdVars, libVars, disp, slot, error, enqueued, started, now>>

\* a worker takes a task off the queue
TakeTask ==
    /\ queue # <<>>
    /\ queue' = Tail(queue)
    /\ UNCHANGED <<mgrVars, raceVars, caller, infoVars, cmdVars, libVars, disp, slot, error, enqueued, started>>

\* time passes
Tick(seconds) ==
    /\ now + seconds <= MaxTime
    /\ now' = now + seconds
    /\ UNCHANGED <<mgrVars, raceVars, caller, cmdVars, libVars, dispVars, last_queue_full_warn_time, log>>

NextInfo ==
    \/ PutInfo
    \/ TakeTask
    \/ \E seconds \in 1..3 : Tick(seconds)

SpecInfo == Init /\ [][NextInfo]_vars

\* the times of the warnings among the first n records of the log
WarningsBefore(n) == {log[j].time : j \in {k \in 1..(n - 1) : log[k].level = "warning"}}

\* C18: put_info on a full queue drops the info and logs one record: a warning when no
\* queue-full warning was logged within the REACTOR_QUEUE_FULL_WARN_INTERVAL_SEC seconds
\* before, a debug record otherwise; two warnings are never less than the interval apart.
C18_QueueFullWarnings ==
    /\ Len(queue) <= MaxQueue
    /\ \A i \in 1..Len(log) :
          log[i].level = "warning" <=>
              \A t \in WarningsBefore(i) : log[i].time - t >= REACTOR_QUEUE_FULL_WARN_INTERVAL_SEC
    /\ \A i, j \in 1..Len(log) :
          i < j /\ log[i].level = "warning" /\ log[j].level = "warning" =>
              log[j].time - log[i].time >= REACTOR_QUEUE_FULL_WARN_INTERVAL_SEC

\* three infos were dropped: the first with a warning, the next within the interval with
\* a debug record, the third a whole interval after the warning with a warning again
C18_Witness ==
    /\ Len(log) = 3
    /\ log[1].level = "warning"
    /\ log[2].level = "debug"
    /\ log[2].time > log[1].time
    /\ log[3].level = "warning"
    /\ log[3].time = log[1].time + REACTOR_QUEUE_FULL_WARN_INTERVAL_SEC
    /\ Len(queue) = MaxQueue

(***************************************************************************)
(* The command tree (mcdr/command/builder/command_node.py)                 *)
(* A string is a sequence of characters.  A tree is a function from node   *)
(* names to nodes; a node holds its kind, what its builder calls set, and  *)
(* the names of its children in the order of the then() calls.  The source *)
(* is fixed: requirement is the boolean requirement(source) returns.       *)
(* Callbacks and requirements return without raising.                      *)
(***************************************************************************)
\* ---------------------------------------------------------------------------------
\* The interfaces of ArgumentNode that build a command tree
\* ---------------------------------------------------------------------------------

\* then raises when the node is redirected, redirects when the node has children
HasChildren(node) == Len(node.children) + Len(node.children_literal) > 0
IllegalThen(node) == node.redirect_node # None
IllegalRedirects_never(node) == FALSE
IllegalRedirects(node) == HasChildren(node)

Chars == {"a", "b", "1", " "}
DIVIDER == " "
Strings(n) == UNION {[1..k -> Chars] : k \in 0..n}
Suffix(text, from) == SubSeq(text, from, Len(text))

\* utils.get_element: the text up to the first divider
GetElement(text) ==
    LET dividers == {i \in 1..Len(text) : text[i] = DIVIDER} IN
    IF dividers = {} THEN text
    ELSE SubSeq(text, 1, (CHOOSE i \in dividers : \A j \in dividers : i <= j) - 1)

RECURSIVE RemoveDividerPrefix(_)
\* utils.remove_divider_prefix
RemoveDividerPrefix(text) ==
    IF text # <<>> /\ Head(text) = DIVIDER THEN RemoveDividerPrefix(Tail(text)) ELSE text

RECURSIVE IntOf(_)
\* int(arg) of a string of digits
IntOf(arg) == IF arg = <<>> THEN 0 ELSE 10 * IntOf(SubSeq(arg, 1, Len(arg) - 1)) + 1

NoValue == [absent |-> "value"]
\* utils.get_int: int() of the element, None when int() raises ValueError
GetInt(text) ==
    LET arg == GetElement(text) IN
    IF arg # <<>> /\ \A i \in 1..Len(arg) : arg[i] = "1"
    THEN [value |-> [int |-> IntOf(arg)], read |-> Len(arg)]
    ELSE [value |-> NoValue, read |-> Len(arg)]

\* then() for every child, runs(), requires(), redirects(), in_range()
Then(node, children_literal, children) ==
    [node EXCEPT !.children_literal = children_literal, !.children = children]
Runs(node, func) == [node EXCEPT !.callback = func]
Requires_notSet(node, requirement) == node

Requires(node, requirement) == [node EXCEPT !.requirement = requirement]
Redirects(node, redirect_node) == [node EXCEPT !.redirect_node = redirect_node]
InRange(node, min_value, max_value) == [node EXCEPT !.range = <<min_value, max_value>>]

ParseResult(value, char_read) == [exc |-> None, value |-> value, char_read |-> char_read]
ParseError(exc, char_read) == [exc |-> exc, value |-> NoValue, char_read |-> char_read]

\* Literal.parse, Integer.parse with _check_in_range, Text.parse
Parse(node, text) ==
    CASE node.kind = "Literal" ->
           LET arg == GetElement(text) IN
           IF arg \in node.literals THEN ParseResult(NoValue, Len(arg))
           ELSE ParseError("IllegalLiteralArgument", Len(arg))
      [] node.kind = "Integer" ->
           LET r == GetInt(text) IN
           IF r.value = NoValue THEN ParseError("IllegalArgument", r.read)
           ELSE IF node.range # <<>> /\ (r.value.int < node.range[1] \/ r.value.int > node.range[2])
           THEN ParseError("NumberOutOfRange", r.read)
           ELSE ParseResult(r.value, r.read)
      [] node.kind = "Text" ->
           LET arg == GetElement(text) IN ParseResult([text |-> arg], Len(arg))

\* context[name] = value on a dict kept as the sequence of its items
SetItem(context, name, value) ==
    IF \E i \in 1..Len(context) : context[i][1] = name
    THEN [i \in 1..Len(context) |-> IF context[i][1] = name THEN <<name, value>> ELSE context[i]]
    ELSE Append(context, <<name, value>>)

\* what a run of execute has done so far: the exception on its way out (None: none)
\* and the end of its position hint, the context dict, the callbacks called with the
\* context they got, and the nodes whose parse was called with the place of the text
\* they were given, and the nodes whose requirement was called
NoRun == [exc |-> None, hint |-> -1, context |-> <<>>, called |-> <<>>, parsed |-> <<>>, asked |-> <<>>]
RaiseIn(run, exc, hint) == [run EXCEPT !.exc = exc, !.hint = hint]

\* the except clause of the loop over the literal children: the loop goes on to the next
\* child after this outcome of a child
GoesOn_never(exc) == FALSE

GoesOn_afterSuccess(exc) == exc \in {None, "IllegalLiteralArgument"}
GoesOn_afterAnyError(exc) == exc # None
GoesOn(exc) == exc = "IllegalLiteralArgument"

\* error_pos: the command up to the ending position, followed by an arrow
ErrorPos_wholeCommand(cmd, ending_pos) == cmd \o <<"<", "-", "-">>
ErrorPos(cmd, ending_pos) ==
    (IF ending_pos >= Len(cmd) THEN cmd ELSE SubSeq(cmd, 1, ending_pos)) \o <<"<", "-", "-">>

RECURSIVE ExecuteNode(_, _, _, _, _)
RECURSIVE LiteralChildren(_, _, _, _, _, _)
RECURSIVE ArgumentChildren(_, _, _, _, _, _)

RECURSIVE ArgumentChildren_triesNext(_, _, _, _, _, _)
ArgumentChildren_triesNext(t, node, cmd, remaining, run, i) ==
    IF i > Len(node.children) THEN run
    ELSE LET r == ExecuteNode(t, node.children[i], cmd, remaining, run) IN
         IF r.exc \in {"IllegalArgument", "NumberOutOfRange"} /\ i < Len(node.children)
         THEN ArgumentChildren_triesNext(t, node, cmd, remaining, RaiseIn(r, None, -1), i + 1)
         ELSE r

\* for child in node.children: the child returns (break) or its exception leaves the loop
ArgumentChildren(t, node, cmd, remaining, run, i) ==
    IF i > Len(node.children) THEN run
    ELSE ExecuteNode(t, node.children[i], cmd, remaining, run)

RECURSIVE LiteralChildren_noArguments(_, _, _, _, _, _)
LiteralChildren_noArguments(t, node, cmd, remaining, run, i) ==
    IF i > Len(node.children_literal) THEN RaiseIn(run, "UnknownArgument", Len(cmd))
    ELSE LET r == ExecuteNode(t, node.children_literal[i], cmd, remaining, run) IN
         IF GoesOn(r.exc)
         THEN LiteralChildren_noArguments(t, node, cmd, remaining, RaiseIn(r, None, -1), i + 1)
         ELSE r

\* for child_literal in node.children_literal ... else: the argument children
LiteralChildren(t, node, cmd, remaining, run, i) ==
    IF i > Len(node.children_literal)
    THEN IF Len(node.children) = 0 THEN RaiseIn(run, "UnknownArgument", Len(cmd))
         ELSE ArgumentChildren(t, node, cmd, remaining, run, 1)
    ELSE LET r == ExecuteNode(t, node.children_literal[i], cmd, remaining, run) IN
         IF GoesOn(r.exc) THEN LiteralChildren(t, node, cmd, remaining, RaiseIn(r, None, -1), i + 1)
         ELSE r

\* ArgumentNode._execute of the node named id
ExecuteNode(t, id, cmd, remaining, run) ==
    LET self == t[id]
        at == Len(cmd) - Len(remaining)
        parse_result == Parse(self, remaining)
        parsed == [run EXCEPT !.parsed = Append(@, <<id, at>>)]
        total_read == at + parse_result.char_read
        trimmed_remaining == RemoveDividerPrefix(Suffix(remaining, parse_result.char_read + 1))
        asked == [parsed EXCEPT !.asked = Append(@, id)]
        stored == IF self.name # None THEN [asked EXCEPT !.context = SetItem(@, self.name, parse_result.value)]
                  ELSE asked
        node == IF self.redirect_node = None THEN self ELSE t[self.redirect_node]
    IN
    IF parse_result.exc # None THEN RaiseIn(parsed, parse_result.exc, at + parse_result.char_read)
    ELSE IF ~self.requirement THEN RaiseIn(asked, "PermissionDenied", total_read)
    ELSE IF Len(trimmed_remaining) = 0
    THEN IF self.callback # None
         THEN [stored EXCEPT !.called = Append(@, [callback |-> self.callback, context |-> stored.context])]
         ELSE RaiseIn(stored, "UnknownCommand", total_read)
    ELSE IF ~HasChildren(node) THEN RaiseIn(stored, "UnknownArgument", Len(cmd))
    ELSE LiteralChildren(t, node, cmd, trimmed_remaining, stored, 1)

\* the dict execute starts from being the one the last callback was called with
NewDict_lastHanded == IF handed = <<>> THEN <<>> ELSE handed[Len(handed)]

\* the {} of execute: every call starts from a dict of its own, whatever the dicts of the
\* calls before hold by now
NewDict == <<>>

\* ExecutableNode.execute on the root of the tree, with a new context
Execute(t, cmd) ==
    LET r == ExecuteNode(t, "root", cmd, cmd, [NoRun EXCEPT !.context = NewDict]) IN
    IF r.exc = "IllegalLiteralArgument" THEN RaiseIn(r, "UnknownRootArgument", r.hint) ELSE r

\* the dicts the callbacks of a run were called with
Handed(run) == [i \in 1..Len(run.called) |-> run.called[i].context]

\* The trees execute is called on.
\* root "a" with the literal children "b" (no callback, one literal child "a") and
\* "b"/"a", and the argument children Integer n in [0, 10] followed by Text t, and Text s
TreeLiterals ==
    [root |-> Runs(Then(Literal({<<"a">>}), <<"l1", "l2">>, <<"n", "s">>), "cb_root"),
     l1 |-> Then(Literal({<<"b">>}), <<"l3">>, <<>>),
     l2 |-> Runs(Literal({<<"b">>, <<"a">>}), "cb_l2"),
     l3 |-> Runs(Literal({<<"a">>}), "cb_l3"),
     n |-> Runs(Then(InRange(Integer("n"), 0, 10), <<>>, <<"t">>), "cb_n"),
     t |-> Runs(Text("t"), "cb_t"),
     s |-> Runs(Text("s"), "cb_s")]
\* root "a" whose literal children "b" and "a"/"b" both run a callback, "1" is refused
\* by its requirement, and whose Text child stores under the name of its own child
TreeTwice ==
    [root |-> Then(Literal({<<"a">>}), <<"l1", "l2", "l3">>, <<"s">>),
     l1 |-> Runs(Literal({<<"b">>}), "cb_l1"),
     l2 |-> Runs(Literal({<<"a">>, <<"b">>}), "cb_l2"),
     l3 |-> Requires(Runs(Literal({<<"1">>}), "cb_l3"), FALSE),
     s |-> Runs(Then(Text("s"), <<>>, <<"s2">>), "cb_s"),
     s2 |-> Runs(Text("s"), "cb_s2")]
\* root "a"/"b" whose literal child "b" redirects to the root, and an Integer child
TreeRedirect ==
    [root |-> Runs(Then(Literal({<<"a">>, <<"b">>}), <<"l1">>, <<"n">>), "cb_root"),
     l1 |-> Runs(Redirects(Literal({<<"b">>}), "root"), "cb_l1"),
     n |-> Integer("n")]
\* root "a" with the literal children "a" and "b" and an Integer child
TreeFallthrough ==
    [root |-> Then(Literal({<<"a">>}), <<"on", "off">>, <<"n">>),
     on |-> Runs(Literal({<<"a">>}), "cb_on"),
     off |-> Runs(Literal({<<"b">>}), "cb_off"),
     n |-> Runs(Integer("n"), "cb_n")]
\* root "a" with a Text child, whose literal child "b" redirects to its literal child
\* "b"/"1", which redirects to the root
TreeChain ==
    [root |-> Runs(Then(Literal({<<"a">>}), <<"A", "B">>, <<"s">>), "cb_root"),
     A |-> Runs(Redirects(Literal({<<"b">>}), "B"), "cb_A"),
     B |-> Runs(Redirects(Literal({<<"b">>, <<"1">>}), "root"), "cb_B"),
     s |-> Runs(Text("s"), "cb_s")]
\* root "a" whose Integer child is refused by its requirement and has a Text child, and
\* whose Text child comes after it
TreeRequires ==
    [root |-> Then(Literal({<<"a">>}), <<>>, <<"n", "s">>),
     n |-> Requires(Runs(Then(Integer("n"), <<>>, <<"t">>), "cb_n"), FALSE),
     t |-> Runs(Text("t"), "cb_t"),
     s |-> Runs(Text("s"), "cb_s")]
Trees ==
    [T1 |-> TreeLiterals, T2 |-> TreeTwice, T3 |-> TreeRedirect, T4 |-> TreeFallthrough, T5 |-> TreeChain,
     T6 |-> TreeRequires]

\* a tree and a command string are picked
InitCommands ==
    /\ InitPlugins
    /\ order = ByName
    /\ \A n \in Names : fs[<<n, FALSE>>] # NoFile <=> n \in {"b", "d"}
    /\ InitRest
    /\ InitLib
    /\ tree \in DOMAIN Trees
    /\ command \in Strings(MaxLen)
    /\ outcome = NotRun
    /\ again = NotRun
    /\ handed = <<>>

\* execute(source, command) on the root
ExecuteCommand ==
    /\ outcome = NotRun
    /\ outcome' = Execute(Trees[tree], command)
    /\ handed' = handed \o Handed(outcome')
    /\ UNCHANGED <<mgrVars, raceVars, dispVars, caller, infoVars, libVars, tree, command, again>>

\* the names and the value a callback writes to the dict it was called with
WrittenNames == {"n", "s", "t"}
Written == [text |-> <<"b">>]

\* a callback that kept the dict it was called with writes an item to it; the dict is
\* the one execute created for that run
CallbackWrites(i, name) ==
    /\ again = NotRun
    /\ handed[i] = outcome.called[i].context
    /\ handed' = [handed EXCEPT ![i] = SetItem(@, name, Written)]
    /\ handed' # handed
    /\ UNCHANGED <<mgrVars, raceVars, dispVars, caller, infoVars, libVars, tree, command, outcome, again>>

\* execute(source, command) on the same tree once more, after what the callbacks of the
\* first call did with their dicts
ExecuteAgain ==
    /\ outcome # NotRun
    /\ again = NotRun
    /\ again' = Execute(Trees[tree], command)
    /\ handed' = handed \o Handed(again')
    /\ UNCHANGED <<mgrVars, raceVars, dispVars, caller, infoVars, libVars, tree, command, outcome>>

NextCommand ==
    \/ ExecuteCommand
    \/ \E i \in 1..Len(handed), name \in WrittenNames : CallbackWrites(i, name)
    \/ ExecuteAgain

SpecCommand == InitCommands /\ [][NextCommand]_vars

CommandErrors ==
    {"UnknownCommand", "UnknownArgument", "UnknownRootArgument", "PermissionDenied", "IllegalArgument",
     "NumberOutOfRange"}

\* C19: execute calls exactly one callback once and raises nothing, or raises one of the
\* command errors and calls no callback; called again on the same tree and string, after
\* whatever the callback of the first call did with the dict it was given, it ends the
\* same way, with the same context given to the callback in a dict of its own.
C19_OneCallbackOrOneError ==
    /\ outcome # NotRun =>
          \/ outcome.exc = None /\ Len(outcome.called) = 1
          \/ outcome.exc \in CommandErrors /\ outcome.called = <<>>
    /\ again # NotRun =>
          /\ again = outcome
          /\ Len(handed) = Len(outcome.called) + Len(again.called)
          /\ \A i \in 1..Len(again.called) :
                handed[Len(outcome.called) + i] = outcome.called[i].context

\* execute was called twice on a string that takes it past a keyword no literal child
\* has, with a value stored in the context of the callback, and the callback of the
\* first call wrote to its dict before the second call
C19_Witness ==
    /\ again # NotRun
    /\ Len(outcome.called) = 1
    /\ outcome.called[1].context # <<>>
    /\ Len(outcome.parsed) >= 4
    /\ handed[1] # outcome.called[1].context

\* the token the node parsed at this place of the command was given
TokenAt(at) == GetElement(Suffix(command, at + 1))
\* the nodes whose children the node named id is among, as a literal child at place j or
\* as an argument child
LiteralChildAt(t, d, id, j) == j \in 1..Len(t[d].children_literal) /\ t[d].children_literal[j] = id
ArgumentChildOf(t, d, id) == \E j \in 1..Len(t[d].children) : t[d].children[j] = id
Matches(t, id, token) == token \in t[id].literals

\* what the run of execute comes to: the exception, its hint, the callbacks called
Ending(run) == <<run.exc, run.hint, [i \in 1..Len(run.called) |-> run.called[i].callback]>>

\* C20: when the next token is a keyword of a literal child of the dispatching node, the
\* parse of no argument child is called for that token, no literal child declared after
\* the first one with that keyword is tried, and what that first literal child comes to,
\* a callback or an error of its subtree, is what execute comes to.
C20_LiteralPrecedence ==
    outcome # NotRun =>
        \A k \in 1..Len(outcome.parsed) :
            LET t == Trees[tree]
                id == outcome.parsed[k][1]
                at == outcome.parsed[k][2]
            IN \A d \in DOMAIN t :
                  /\ ArgumentChildOf(t, d, id) =>
                        \A j \in 1..Len(t[d].children_literal) :
                            ~Matches(t, t[d].children_literal[j], TokenAt(at))
                  /\ \A j \in 1..Len(t[d].children_literal) :
                        LiteralChildAt(t, d, id, j) =>
                            /\ \A i \in 1..(j - 1) : ~Matches(t, t[d].children_literal[i], TokenAt(at))
                            /\ Matches(t, id, TokenAt(at)) =>
                                  Ending(outcome) = Ending(ExecuteNode(t, id, command, Suffix(command, at + 1), NoRun))

\* the token "b" is the keyword of two literal children and would parse as the Text
\* child: the first literal child was taken and execute ended with the error of its subtree
C20_Witness ==
    /\ outcome # NotRun
    /\ tree = "T1"
    /\ \E k \in 1..Len(outcome.parsed) :
          /\ outcome.parsed[k][1] = "l1"
          /\ Matches(Trees[tree], "l1", TokenAt(outcome.parsed[k][2]))
          /\ Matches(Trees[tree], "l2", TokenAt(outcome.parsed[k][2]))
    /\ outcome.exc \in {"UnknownCommand", "UnknownArgument"}
    /\ outcome.called = <<>>

\* the errors a parse raises, and the one execute makes of the root's
SyntaxErrors == {"IllegalArgument", "NumberOutOfRange", "IllegalLiteralArgument", "UnknownRootArgument"}
\* the last node whose parse was called, the place of its token and the token
LastParsed == outcome.parsed[Len(outcome.parsed)]
\* the token begins there: after a divider, or at the beginning of the command
TokenBegins(at) == at = 0 \/ (command[at] = DIVIDER /\ at < Len(command) /\ command[at + 1] # DIVIDER)

\* C21: the position hint of a command error raised by execute is the first k characters
\* of the command followed by "<--": k is the number of characters before the failing
\* token plus char_read for an error of parse, the end of the last parsed token for
\* PermissionDenied and UnknownCommand, the length of the command for UnknownArgument,
\* and k is never more than the length of the command.
C21_PositionHint ==
    (outcome # NotRun /\ outcome.exc # None) =>
        LET at == LastParsed[2]
            failing == Trees[tree][LastParsed[1]]
            k == CASE outcome.exc \in SyntaxErrors -> at + Parse(failing, Suffix(command, at + 1)).char_read
                   [] outcome.exc \in {"PermissionDenied", "UnknownCommand"} -> at + Len(TokenAt(at))
                   [] outcome.exc = "UnknownArgument" -> Len(command)
        IN /\ TokenBegins(at)
           /\ k <= Len(command)
           /\ ErrorPos(command, outcome.hint) = SubSeq(command, 1, k) \o <<"<", "-", "-">>
           /\ outcome.exc \in SyntaxErrors => Parse(failing, Suffix(command, at + 1)).exc # None

\* "a 11" on the tree whose Integer child takes 0 to 10: NumberOutOfRange with the hint
\* "a 11<--"
C21_Witness ==
    /\ outcome # NotRun
    /\ tree = "T1"
    /\ command = <<"a", " ", "1", "1">>
    /\ outcome.exc = "NumberOutOfRange"
    /\ ErrorPos(command, outcome.hint) = <<"a", " ", "1", "1", "<", "-", "-">>

\* what a run comes to for its caller: the exception raised and the callbacks called with
\* the values bound in the context they were given
Result(run) == <<run.exc, run.called>>

\* C22: when node A redirects to node B, A dispatched on its token and a suffix ends as B
\* dispatched on the same token and suffix does: the same callback with the same values,
\* or the same error; for the empty suffix too, and when B redirects to a third node.
C22_RedirectEquivalence ==
    outcome # NotRun =>
        \A k \in 1..Len(outcome.parsed) :
            LET t == Trees[tree]
                A == outcome.parsed[k][1]
                B == t[A].redirect_node
                text == Suffix(command, outcome.parsed[k][2] + 1)
            IN (B # None /\ Parse(t[A], text).exc = None /\ Parse(t[B], text).exc = None) =>
                  Result(ExecuteNode(t, A, text, text, NoRun)) = Result(ExecuteNode(t, B, text, text, NoRun))

\* ---------------------------------------------------------------------------------
\* then, runs, requires and redirects called on nodes, in any order
\* ---------------------------------------------------------------------------------

NodeIds == DOMAIN NewNodes
Called(method, self, arg, exc) ==
    [calls |-> built.calls + 1, method |-> method, self |-> self, arg |-> arg, exc |-> exc]

\* self.then(node)
ThenCall(self, node) ==
    /\ built.calls < MaxCalls
    /\ IF IllegalThen(nodes[self])
       THEN /\ built' = Called("then", self, node, "IllegalNodeOperation")
            /\ nodes' = nodes
       ELSE /\ built' = Called("then", self, node, None)
            /\ nodes' = [nodes EXCEPT ![self] =
                            IF nodes[node].kind = "Literal"
                            THEN Then(@, Append(@.children_literal, node), @.children)
                            ELSE Then(@, @.children_literal, Append(@.children, node))]
    /\ UNCHANGED <<mgrVars, raceVars, dispVars, caller, infoVars, cmdVars, metaVars, rconVars, resVars, foldVars, nestVars>>

\* self.runs(func)
RunsCall(self, func) ==
    /\ built.calls < MaxCalls
    /\ built' = Called("runs", self, func, None)
    /\ nodes' = [nodes EXCEPT ![self] = Runs(@, func)]
    /\ UNCHANGED <<mgrVars, raceVars, dispVars, caller, infoVars, cmdVars, metaVars, rconVars, resVars, foldVars, nestVars>>

\* self.requires(requirement)
RequiresCall(self, requirement) ==
    /\ built.calls < MaxCalls
    /\ built' = Called("requires", self, requirement, None)
    /\ nodes' = [nodes EXCEPT ![self] = Requires(@, requirement)]
    /\ UNCHANGED <<mgrVars, raceVars, dispVars, caller, infoVars, cmdVars, metaVars, rconVars, resVars, foldVars, nestVars>>

\* self.redirects(redirect_node)
RedirectsCall(self, redirect_node) ==
    /\ built.calls < MaxCalls
    /\ IF IllegalRedirects(nodes[self])
       THEN /\ built' = Called("redirects", self, redirect_node, "IllegalNodeOperation")
            /\ nodes' = nodes
       ELSE /\ built' = Called("redirects", self, redirect_node, None)
            /\ nodes' = [nodes EXCEPT ![self] = Redirects(@, redirect_node)]
    /\ UNCHANGED <<mgrVars, raceVars, dispVars, caller, infoVars, cmdVars, metaVars, rconVars, resVars, foldVars, nestVars>>

NextBuilder ==
    \/ \E self \in NodeIds, node \in NodeIds : ThenCall(self, node)
    \/ \E self \in NodeIds : RunsCall(self, "cb")
    \/ \E self \in NodeIds : RequiresCall(self, FALSE)
    \/ \E self \in NodeIds, redirect_node \in NodeIds : RedirectsCall(self, redirect_node)

SpecBuilder == Init /\ [][NextBuilder]_vars

BuilderStep ==
    built' # built =>
        LET node == nodes[built'.self] IN
        /\ built'.exc = "IllegalNodeOperation" <=>
              \/ built'.method = "then" /\ node.redirect_node # None
              \/ built'.method = "redirects" /\ Len(node.children) + Len(node.children_literal) > 0
        /\ built'.exc = "IllegalNodeOperation" => nodes' = nodes
        /\ \A n \in NodeIds :
              nodes'[n].redirect_node # None => nodes'[n].children = <<>> /\ nodes'[n].children_literal = <<>>

\* C23: whatever calls of then, runs, requires and redirects were made, a node with a
\* redirect target has no children; then on a redirected node and redirects on a node
\* with children raise IllegalNodeOperation, no other call raises, and a call that
\* raises leaves children, redirect target, callback and requirement of every node as
\* they were.
C23_RedirectedHasNoChildren == [][BuilderStep]_vars

\* then was refused on a redirected node whose target has a child
C23_Witness ==
    /\ built.method = "then"
    /\ built.exc = "IllegalNodeOperation"
    /\ nodes[built.self].redirect_node # None
    /\ nodes[nodes[built.self].redirect_node].children # <<>>

\* C24: at the node with the literal children "a" and "b" and an Integer child, a next
\* token that is no keyword of the literal children and is an integer takes the Integer
\* child (the value is bound and its callback is called when the command ends there),
\* and a next token that is no keyword and no integer raises UnknownArgument.
C24_LiteralFallthrough ==
    LET rest == RemoveDividerPrefix(Suffix(command, 2))
        token == GetElement(rest)
    IN (/\ outcome # NotRun
        /\ tree = "T4"
        /\ GetElement(command) = <<"a">>
        /\ rest # <<>>
        /\ token \notin {<<"a">>, <<"b">>}) =>
           IF GetInt(rest).value # NoValue
           THEN rest = token =>
                   /\ outcome.exc = None
                   /\ outcome.called = <<[callback |-> "cb_n", context |-> <<<<"n", GetInt(rest).value>>>>]>>
           ELSE outcome.exc = "UnknownArgument"

\* C24 as the code has it: the token that is no keyword and no integer raises the
\* IllegalArgument of the Integer child's parse, with the hint at the end of that token,
\* and no callback is called.
C24_FallthroughToInteger ==
    LET rest == RemoveDividerPrefix(Suffix(command, 2))
        token == GetElement(rest)
    IN (/\ outcome # NotRun
        /\ tree = "T4"
        /\ GetElement(command) = <<"a">>
        /\ rest # <<>>
        /\ token \notin {<<"a">>, <<"b">>}) =>
           IF GetInt(rest).value # NoValue
           THEN rest = token =>
                   /\ outcome.exc = None
                   /\ outcome.called = <<[callback |-> "cb_n", context |-> <<<<"n", GetInt(rest).value>>>>]>>
           ELSE /\ outcome.exc = "IllegalArgument"
                /\ outcome.hint = Len(command) - Len(rest) + Len(token)
                /\ outcome.called = <<>>

\* "a ab": the literal children "a" and "b" and the Integer child were tried on "ab"
C24_Witness ==
    /\ outcome # NotRun
    /\ tree = "T4"
    /\ command = <<"a", " ", "a", "b">>
    /\ [i \in 1..Len(outcome.parsed) |-> outcome.parsed[i][1]] = <<"root", "on", "off", "n">>
    /\ outcome.exc = "IllegalArgument"

\* a literal below the root was given a token that is not one of its keywords
DeeperMismatch ==
    \E k \in 2..Len(outcome.parsed) :
        /\ Trees[tree][outcome.parsed[k][1]].kind = "Literal"
        /\ ~Matches(Trees[tree], outcome.parsed[k][1], TokenAt(outcome.parsed[k][2]))

\* C25: execute on a root Literal raises UnknownRootArgument exactly when the first
\* token of the command is not one of the root's keywords; IllegalLiteralArgument never
\* leaves execute, and a keyword that does not match at a literal below the root never
\* comes out as UnknownRootArgument.
C25_UnknownRootArgument ==
    outcome # NotRun =>
        /\ outcome.exc = "UnknownRootArgument" <=> GetElement(command) \notin Trees[tree]["root"].literals
        /\ outcome.exc # "IllegalLiteralArgument"
        /\ DeeperMismatch => outcome.exc # "UnknownRootArgument"

\* the only literal child of a literal child of the root was given a token that is not
\* its keyword: UnknownArgument
C25_Witness ==
    /\ outcome # NotRun
    /\ tree = "T1"
    /\ DeeperMismatch
    /\ outcome.parsed[Len(outcome.parsed)][1] = "l3"
    /\ outcome.exc = "UnknownArgument"

\* the nodes given a requirement that refuses the source
Refused == {<<"T2", "l3">>, <<"T6", "n">>}
\* the parse of the k-th node the run called returned
ParsedOk(k) ==
    Parse(Trees[tree][outcome.parsed[k][1]], Suffix(command, outcome.parsed[k][2] + 1)).exc = None
RECURSIVE IdsParsedOk(_)
IdsParsedOk(k) ==
    IF k = 0 THEN <<>>
    ELSE IF ParsedOk(k) THEN Append(IdsParsedOk(k - 1), outcome.parsed[k][1]) ELSE IdsParsedOk(k - 1)

\* C29: when the token of a node parses and its requirement refuses the source, execute
\* raises PermissionDenied with the hint at the end of that token, the value of the node
\* is not bound in the context, no callback is called and no child is tried; the
\* requirement of a node whose token does not parse is not called.
C29_PermissionDenied ==
    outcome # NotRun =>
        LET t == Trees[tree]
            n == Len(outcome.parsed)
        IN /\ \A k \in 1..n :
                 (<<tree, outcome.parsed[k][1]>> \in Refused /\ ParsedOk(k)) =>
                     /\ k = n
                     /\ outcome.exc = "PermissionDenied"
                     /\ outcome.hint = outcome.parsed[k][2] + Len(TokenAt(outcome.parsed[k][2]))
                     /\ outcome.called = <<>>
                     /\ \A i \in 1..Len(outcome.context) :
                           \E j \in 1..(k - 1) : ParsedOk(j) /\ t[outcome.parsed[j][1]].name = outcome.context[i][1]
           /\ outcome.exc = "PermissionDenied" => <<tree, LastParsed[1]>> \in Refused /\ ParsedOk(n)
           /\ outcome.asked = IdsParsedOk(n)

\* "a 1 b" where the Integer child refuses the source: PermissionDenied at the end of
\* "1", and its Text child was given nothing
C29_Witness ==
    /\ outcome # NotRun
    /\ tree = "T6"
    /\ command = <<"a", " ", "1", " ", "b">>
    /\ outcome.exc = "PermissionDenied"
    /\ outcome.hint = 3
    /\ outcome.context = <<>>
    /\ LastParsed[1] = "n"

\* C30: when no literal child takes the next token and the dispatching node has
\* non-literal children, the first declared one is given the token and what it comes
\* to, its error unchanged, is what execute comes to; a non-literal child declared after
\* it is never given the token.
C30_FirstArgumentChild ==
    outcome # NotRun =>
        \A k \in 1..Len(outcome.parsed) :
            LET t == Trees[tree]
                id == outcome.parsed[k][1]
                at == outcome.parsed[k][2]
            IN \A d \in DOMAIN t :
                  ArgumentChildOf(t, d, id) =>
                      /\ id = t[d].children[1]
                      /\ Ending(outcome) = Ending(ExecuteNode(t, id, command, Suffix(command, at + 1), NoRun))

\* "a ab": the Integer child, declared first, fails on "ab" and the Text child declared
\* after it, which would take it, is not given the token
C30_Witness ==
    /\ outcome # NotRun
    /\ tree = "T1"
    /\ command = <<"a", " ", "a", "b">>
    /\ LastParsed[1] = "n"
    /\ Trees[tree]["root"].children = <<"n", "s">>
    /\ outcome.exc = "IllegalArgument"
    /\ outcome.called = <<>>

\* ---------------------------------------------------------------------------------
\* MetaData.__init__
\* ---------------------------------------------------------------------------------

\* a key the dict does not hold; a str and an int held by the dict
NoKey == [absent |-> "key"]
StrValue(s) == [str |-> s]
IntValue(n) == [int |-> n]
\* the object has no such attribute: reading it raises AttributeError
NoAttribute == [absent |-> "attribute"]
PLUGIN_FILE_SUFFIX == <<".", "p", "y">>
FALLBACK_VERSION == "0.0.0"

\* string_util.remove_suffix
RemoveSuffix(text, suffix) ==
    IF Len(text) >= Len(suffix) /\ SubSeq(text, Len(text) - Len(suffix) + 1, Len(text)) = suffix
    THEN SubSeq(text, 1, Len(text) - Len(suffix))
    ELSE text

\* Version(version_str, allow_wildcard): the components, or VersionParsingError
VersionTable == [x \in {"1.0.0", "0.0.0"} |-> IF x = "1.0.0" THEN <<1, 0, 0>> ELSE <<0, 0, 0>>]
WildcardTable == [x \in {"1.*"} |-> <<1, "*">>]
Version(version_str, allow_wildcard) ==
    IF version_str \in DOMAIN VersionTable THEN [exc |-> None, version |-> VersionTable[version_str]]
    ELSE IF allow_wildcard /\ version_str \in DOMAIN WildcardTable
    THEN [exc |-> None, version |-> WildcardTable[version_str]]
    ELSE [exc |-> "VersionParsingError", version |-> NoAttribute]

\* VersionRequirement(requirement): the constraints, or VersionParsingError
RequirementTable ==
    [x \in {">=1.0.0", "*"} |-> IF x = "*" THEN <<[op |-> "*"]>> ELSE <<[op |-> ">=", version |-> <<1, 0, 0>>]>>]
VersionRequirement(requirement) ==
    IF requirement \in DOMAIN RequirementTable
    THEN [exc |-> None, requirement |-> RequirementTable[requirement]]
    ELSE [exc |-> "VersionParsingError", requirement |-> NoAttribute]

\* bool(value) of what data.get('version') gives
Truthy(value) == value \notin {NoKey, StrValue(""), IntValue(0)}

EmptyDict == [dict |-> TRUE, id |-> NoKey, version |-> NoKey, dependencies |-> NoKey]

\* MetaData.__init__(plugin, data), with the warnings it logs
MetaData(fname, d) ==
    LET items == IF d.dict THEN d ELSE EmptyDict
        fallback_id == RemoveSuffix(fname, PLUGIN_FILE_SUFFIX)
        version_str == items.version
        parsed == IF Truthy(version_str) THEN Version(version_str.str, FALSE) ELSE Version(FALLBACK_VERSION, TRUE)
        is_none == version_str = NoKey \/ (Truthy(version_str) /\ parsed.exc # None)
        declared == IF items.dependencies = NoKey THEN <<>> ELSE items.dependencies
        kept == {plugin_id \in DOMAIN declared : VersionRequirement(declared[plugin_id]).exc = None}
    IN [id |-> IF items.id = NoKey THEN fallback_id ELSE items.id.str,
        version |-> IF is_none THEN Version(FALLBACK_VERSION, TRUE).version
                    ELSE IF Truthy(version_str) THEN parsed.version
                    ELSE NoAttribute,
        dependencies |-> [plugin_id \in kept |-> VersionRequirement(declared[plugin_id]).requirement],
        warnings |-> (IF Truthy(version_str) /\ parsed.exc = None THEN 0 ELSE 1)
                     + Cardinality(DOMAIN declared \ kept)]

\* the plugin files and the metadata dicts MetaData is constructed from
MetaFileNames == {PyFile(<<"a">>), PyFile(<<"b", "c">>)}
DependencyIds == {"p", "q"}
DependencyDicts == UNION {[ids -> {">=1.0.0", "*", ">>1"}] : ids \in SUBSET DependencyIds}
DataInputs ==
    {NotADict} \cup
    [dict : {TRUE},
     id : {NoKey, StrValue(<<"x">>)},
     version : {NoKey, StrValue(""), IntValue(0), StrValue("1.0.0"), StrValue("1.x"), StrValue("1.*")},
     dependencies : {NoKey} \cup DependencyDicts]

InitMetaData ==
    /\ InitPlugins
    /\ order = ByName
    /\ \A n \in Names : fs[<<n, FALSE>>] # NoFile <=> n \in {"b", "d"}
    /\ InitRest
    /\ InitNoCommand
    /\ InitBuilder
    /\ InitRcon
    /\ InitResult
    /\ InitPluginFolders
    /\ InitNested
    /\ file_name \in MetaFileNames
    /\ data \in DataInputs
    /\ metadata = NotConstructed

\* MetaData(plugin, data)
Construct ==
    /\ metadata = NotConstructed
    /\ metadata' = MetaData(file_name, data)
    /\ UNCHANGED <<mgrVars, raceVars, dispVars, caller, infoVars, cmdVars, bldVars, rconVars, resVars, foldVars, nestVars, file_name, data>>

NextMetaData == Construct

SpecMetaData == InitMetaData /\ [][NextMetaData]_vars

\* C26: whatever the metadata input (not a dict, no version key, a version that is empty
\* or otherwise falsy, a malformed version, a valid version), the MetaData constructed
\* has a version, the declared one when it parses and 0.0.0 otherwise; its id is the
\* declared id or, without one, the file name without .py; a dependency with a
\* malformed requirement is left out and the others are kept.
C26_MetaDataComplete ==
    metadata # NotConstructed =>
        LET d == IF data.dict THEN data ELSE EmptyDict
            wellformed == {StrValue("1.0.0"), StrValue("0.0.0")}
            declared == IF d.dependencies = NoKey THEN <<>> ELSE d.dependencies
        IN /\ metadata.version # NoAttribute
           /\ metadata.version = IF d.version \in wellformed THEN VersionTable[d.version.str] ELSE <<0, 0, 0>>
           /\ metadata.id = IF d.id = NoKey THEN SubSeq(file_name, 1, Len(file_name) - 3) ELSE d.id.str
           /\ DOMAIN metadata.dependencies = {p \in DOMAIN declared : declared[p] \in {">=1.0.0", "*"}}
           /\ \A p \in DOMAIN metadata.dependencies :
                 metadata.dependencies[p] = RequirementTable[declared[p]]

\* ---------------------------------------------------------------------------------
\* RconManager: connect, disconnect and send_command called by two threads. Every read
\* of self.rcon is a step of its own; a RconConnection (rcon_connection.py) holds a
\* socket that is open or not, its connect waits for the server twice, to open the
\* socket and for the answer to the password, and its send_command waits for the answer
\* to the query.
\* ---------------------------------------------------------------------------------

besidesRcon == <<mgrVars, raceVars, dispVars, caller, infoVars, cmdVars, bldVars, metaVars, resVars, foldVars, nestVars>>

\* self.rcon holding connection x
Holds(x) == [connection |-> x]
\* RconManager.is_running, were it read in one step
IsRunning(r, conns) == r # NoConnection /\ conns[r.connection].socket

At(t, pc, method) == [pc |-> pc, method |-> method]
\* the thread is inside RconConnection.connect of connection x
Inside(pc, x) == [pc |-> pc, method |-> "connect", connection |-> x]
\* the thread is inside RconConnection.send_command of connection x
Querying(x) == [pc |-> "query", method |-> "send_command", connection |-> x]
\* the call returned or raised; running: what is_running gave the call, threw: the
\* connection's own method threw inside the call, after: what is_running gives when
\* the call ends
Done(c, ret, exc, running, threw, after) ==
    [pc |-> "done", method |-> c.method, ret |-> ret, exc |-> exc, running |-> running, threw |-> threw,
     after |-> after]
Goto(t, c) == call' = [call EXCEPT ![t] = c]

\* the connections self.rcon or a thread inside connect or send_command holds
Referenced(r, c) ==
    {x \in Connections :
        r = Holds(x) \/ \E t \in RconThreads : c[t].pc \in {"open", "login", "query"} /\ c[t].connection = x}
\* a connection nothing holds any more is gone
Kept(r, c, conns) == [x \in Connections |-> IF x \in Referenced(r, c) THEN conns[x] ELSE RconConnection]

\* a thread calls connect, disconnect or send_command: each begins with is_running()
Begin(t, method) ==
    /\ call[t] = NoRconCall
    /\ Goto(t, At(t, "is_running", method))
    /\ UNCHANGED <<rcon, connections, besidesRcon>>

\* what the method does when is_running() gave this answer
AfterIsRunning(c, running) ==
    CASE c.method = "send_command" ->
            IF running THEN At("t", "send", c.method) ELSE Done(c, None, None, FALSE, FALSE, FALSE)
      [] c.method = "disconnect" ->
            IF running THEN At("t", "close", c.method) ELSE At("t", "clear", c.method)
      [] c.method = "connect" ->
            IF running THEN At("t", "is_running", "connect.disconnect") ELSE At("t", "new", c.method)
      [] c.method = "connect.disconnect" ->
            IF running THEN At("t", "close", c.method) ELSE At("t", "clear", c.method)

\* is_running: self.rcon is not None
IsRunningFirst(t) ==
    /\ call[t].pc = "is_running"
    /\ Goto(t, IF rcon = NoConnection THEN AfterIsRunning(call[t], FALSE)
               ELSE At(t, "socket", call[t].method))
    /\ UNCHANGED <<rcon, connections, besidesRcon>>

\* is_running: self.rcon.socket is not None, self.rcon read again
IsRunningSecond(t) ==
    /\ call[t].pc = "socket"
    /\ Goto(t, IF rcon = NoConnection
               THEN Done(call[t], None, "AttributeError", FALSE, FALSE, IsRunning(rcon, connections))
               ELSE AfterIsRunning(call[t], connections[rcon.connection].socket))
    /\ UNCHANGED <<rcon, connections, besidesRcon>>

\* send_command: return self.rcon.send_command(command): self.rcon is read, and the
\* thread is inside the send_command of the connection it found
Send(t) ==
    /\ call[t].pc = "send"
    /\ Goto(t, IF rcon = NoConnection
               THEN Done(call[t], None, "AttributeError", TRUE, FALSE, IsRunning(rcon, connections))
               ELSE Querying(rcon.connection))
    /\ UNCHANGED <<rcon, connections, besidesRcon>>

\* RconConnection.send_command: the answer of the server is there and is returned; on a
\* connection whose socket was closed meanwhile the query fails one way or the other
SendCommand(t) ==
    /\ call[t].pc = "query"
    /\ \E ret \in {"response", None}, exc \in {None, "Exception"} :
          /\ connections[call[t].connection].socket => exc = None
          /\ ~connections[call[t].connection].socket => ret = None
          /\ Goto(t, Done(call[t], ret, exc, TRUE, exc # None, IsRunning(rcon, connections)))
          /\ connections' = Kept(rcon, call', connections)
    /\ UNCHANGED <<rcon, besidesRcon>>

\* disconnect: self.rcon.disconnect() inside try ... except: the socket is closed, or
\* the call throws and the socket is left as it is
Close(t) ==
    /\ call[t].pc = "close"
    /\ \E throws \in BOOLEAN :
          /\ connections' = IF rcon = NoConnection \/ throws THEN connections
                            ELSE [connections EXCEPT ![rcon.connection].socket = FALSE]
          /\ Goto(t, [At(t, "clear", call[t].method) EXCEPT !.pc = IF throws THEN "clear_thrown" ELSE "clear"])
    /\ UNCHANGED <<rcon, besidesRcon>>

\* disconnect: self.rcon = None
Clear(t) ==
    /\ call[t].pc \in {"clear", "clear_thrown"}
    /\ rcon' = NoConnection
    /\ Goto(t, IF call[t].method = "disconnect"
               THEN Done(call[t], None, None, FALSE, call[t].pc = "clear_thrown", FALSE)
               ELSE At(t, "new", "connect"))
    /\ connections' = Kept(rcon', call', connections)
    /\ UNCHANGED besidesRcon

\* connect: self.rcon = RconConnection(address, port, str(password), self.logger)
New(t) ==
    /\ call[t].pc = "new"
    /\ LET x == CHOOSE x \in Connections : x \notin Referenced(rcon, call) IN
          /\ rcon' = Holds(x)
          /\ Goto(t, At(t, "connect", "connect"))
          /\ connections' = Kept(rcon', call', [connections EXCEPT ![x] = RconConnection])
    /\ UNCHANGED besidesRcon

\* connect: success = self.rcon.connect() inside try: self.rcon is read, and the thread
\* is inside the connect of the connection it found
Connect(t) ==
    /\ call[t].pc = "connect"
    /\ Goto(t, IF rcon = NoConnection THEN At(t, "connect_failed", "connect")
               ELSE Inside("open", rcon.connection))
    /\ UNCHANGED <<rcon, connections, besidesRcon>>

\* RconConnection.connect: the connection opens its socket and sends the password, or
\* throws, its socket open or not
ConnectOpen(t) ==
    /\ call[t].pc = "open"
    /\ \E throws \in BOOLEAN, socket \in BOOLEAN :
          /\ ~throws => socket
          /\ socket \/ ~connections[call[t].connection].socket
          /\ Goto(t, IF throws THEN At(t, "connect_failed", "connect") ELSE Inside("login", call[t].connection))
          /\ connections' = Kept(rcon, call', [connections EXCEPT ![call[t].connection].socket = socket])
    /\ UNCHANGED <<rcon, besidesRcon>>

\* RconConnection.connect: the answer of the server is there: the connection is logged
\* in, or it is refused and closes its socket, or it throws; then the else clause of
\* connect logs the outcome
ConnectLogin(t) ==
    /\ call[t].pc = "login"
    /\ \E success \in {"connected", "wrong_password", "throws"} :
          LET x == call[t].connection
              conns == IF success = "wrong_password" THEN [connections EXCEPT ![x].socket = FALSE]
                       ELSE connections
          IN /\ Goto(t, IF success = "throws" THEN At(t, "connect_failed", "connect")
                        ELSE Done(call[t], None, None, FALSE, FALSE, IsRunning(rcon, conns)))
             /\ connections' = Kept(rcon, call', conns)
    /\ UNCHANGED <<rcon, besidesRcon>>

\* connect: the except clause, self.rcon = None
ConnectFailed(t) ==
    /\ call[t].pc = "connect_failed"
    /\ rcon' = NoConnection
    /\ Goto(t, Done(call[t], None, None, FALSE, TRUE, FALSE))
    /\ connections' = Kept(rcon', call', connections)
    /\ UNCHANGED besidesRcon

\* the caller goes on
RconReturn(t) ==
    /\ call[t].pc = "done"
    /\ Goto(t, NoRconCall)
    /\ UNCHANGED <<rcon, connections, besidesRcon>>

NextRcon ==
    \E t \in RconThreads :
        \/ \E method \in {"connect", "disconnect", "send_command"} : Begin(t, method)
        \/ IsRunningFirst(t)
        \/ IsRunningSecond(t)
        \/ Send(t)
        \/ SendCommand(t)
        \/ Close(t)
        \/ Clear(t)
        \/ New(t)
        \/ Connect(t)
        \/ ConnectOpen(t)
        \/ ConnectLogin(t)
        \/ ConnectFailed(t)
        \/ RconReturn(t)

SpecRcon == Init /\ [][NextRcon]_vars

\* C27: send_command never fails, whatever connect, disconnect and send_command do on
\* other threads meanwhile, and returns None when the connection is not running; when
\* disconnect returns is_running is false, and when a connect whose connection threw
\* returns is_running is false.
C27_SendCommandNeverFails ==
    \A t \in RconThreads :
        call[t].pc = "done" =>
            /\ call[t].method = "send_command" =>
                  /\ call[t].exc = None
                  /\ ~call[t].running => call[t].ret = None
            /\ (call[t].method = "disconnect" /\ call[t].exc = None) => ~call[t].after
            /\ (call[t].method = "connect" /\ call[t].threw) => ~call[t].after

\* ---------------------------------------------------------------------------------
\* What the plugin operations of the facade return: the manager's last_operation_result,
\* one object the manager records every operation in, or None
\* ---------------------------------------------------------------------------------

ReturnedNone == [none |-> TRUE]
\* the call raised instead of returning
Raised == [raised |-> TRUE]
\* the facade method returned value; present: the file of the path, or the plugin of the
\* id, was there when it was called
Returns(method, present, m, value) ==
    /\ returned' = [called |-> TRUE, method |-> method, present |-> present,
                    value |-> IF m.raised THEN Raised ELSE value]
    /\ lastOp' = IF method = "load_plugin" \/ present THEN Op(method) ELSE NotRecorded(method)
    /\ synced' = TRUE
    /\ HandlersRan
    /\ UNCHANGED <<changes, adds, raceVars, dispBesidesSlot, caller, infoVars, cmdVars, bldVars, metaVars, rconVars,
                   foldVars, nestVars>>

\* ServerInterface.load_plugin(plugin_file_path)
ServerLoadPlugin(path) ==
    /\ Quiet
    /\ OnInfoReactorThread(caller)
    /\ LET m == MgrLoadPlugin(BeginOp(Mgr), fs, AnyListing, path) IN
          Commit(m) /\ Returns("load_plugin", fs[path] # NoFile, m, m.result)
    /\ UNCHANGED <<fs, order>>

\* ServerInterface.enable_plugin(plugin_file_path)
ServerEnablePlugin(path) ==
    /\ Quiet
    /\ OnInfoReactorThread(caller)
    /\ LET r == MgrEnablePlugin(Mgr, fs, AnyListing, path) IN
          /\ Commit(r.m)
          /\ fs' = r.fs
          /\ Relisted(r.fs)
          /\ Returns("enable_plugin", fs[path] # NoFile, r.m, r.m.result)

\* ServerInterface.reload_plugin(plugin_id)
ServerReloadPlugin(id) ==
    /\ Quiet
    /\ OnInfoReactorThread(caller)
    /\ LET m == IF ContainsPluginId(Mgr, id) THEN MgrReloadPlugin(BeginOp(Mgr), fs, id)
                ELSE BeginOp(Mgr)
       IN Commit(m) /\ Returns("reload_plugin", ContainsPluginId(Mgr, id), m,
                               IF ContainsPluginId(Mgr, id) THEN m.result ELSE ReturnedNone)
    /\ UNCHANGED <<fs, order>>

\* ServerInterface.disable_plugin(plugin_id)
ServerDisablePlugin(id) ==
    /\ Quiet
    /\ OnInfoReactorThread(caller)
    /\ LET r == IF ContainsPluginId(Mgr, id) THEN MgrDisablePlugin(Mgr, fs, id)
                ELSE [m |-> BeginOp(Mgr), fs |-> fs]
       IN /\ Commit(r.m)
          /\ fs' = r.fs
          /\ Relisted(r.fs)
          /\ Returns("disable_plugin", ContainsPluginId(Mgr, id), r.m,
                     IF ContainsPluginId(Mgr, id) THEN r.m.result ELSE ReturnedNone)

NextResult ==
    \/ \E path \in PyPaths : ServerLoadPlugin(path)
    \/ \E path \in EnablePaths : ServerEnablePlugin(path)
    \/ \E id \in Ids : ServerReloadPlugin(id)
    \/ \E id \in Ids : ServerDisablePlugin(id)
    \/ Return

SpecResult == Init /\ [][NextResult]_vars

ResultStep ==
    (Quiet /\ ~Quiet') =>
        /\ (returned'.method \in {"load_plugin", "enable_plugin"} /\ ~returned'.present) =>
              returned'.value = EmptyResult
        /\ (returned'.method \in {"reload_plugin", "disable_plugin"} /\ ~returned'.present) =>
              /\ returned'.value = ReturnedNone
              /\ plugins' = plugins
              /\ result' = result

\* C28: the result a plugin operation of the facade returns describes that call only:
\* enable_plugin and load_plugin on a path with no plugin file return a result whose
\* lists are all empty, never the lists of an earlier operation; reload_plugin and
\* disable_plugin with an unknown id return None and leave the plugins and the last
\* result as they were.
C28_ResultDescribesCall == [][ResultStep]_vars

\* ---------------------------------------------------------------------------------
\* The plugin folders: load_plugin with no folder, one folder and several folders
\* ---------------------------------------------------------------------------------

\* misc_util.unique_list: the elements in their order, each once
RECURSIVE UniqueList(_)
UniqueList(s) ==
    IF s = <<>> THEN <<>>
    ELSE <<Head(s)>> \o SelectSeq(UniqueList(Tail(s)), LAMBDA x : x # Head(s))

\* the lists set_plugin_folders is called with
FolderLists ==
    {<<>>, <<"plugins">>, <<"plugins", "extra">>, <<"extra", "more">>, <<"extra", "plugins", "more">>,
     <<"plugins", "plugins">>}

\* PluginManager.set_plugin_folders(plugin_folders)
SetPluginFolders(folders) ==
    /\ Quiet
    /\ plugin_folders' = UniqueList(folders)
    /\ UNCHANGED <<mgrVars, raceVars, dispVars, caller, infoVars, cmdVars,
                   bldVars, metaVars, rconVars, resVars, nestVars>>

NextFolders ==
    \/ \E folders \in FolderLists : SetPluginFolders(folders)
    \/ \E path \in PyPaths : LoadPlugin(path)
    \/ \E id \in Ids : UnloadPlugin(id)
    \/ Return

SpecFolders == Init /\ [][NextFolders]_vars

\* the file of the path is not registered and evaluating it gives a plugin whose id is
\* not in the map
LoadsCorrectly(path) ==
    /\ ~ContainsPluginFile(Mgr, path)
    /\ fs[path] # NoFile
    /\ ~fs[path].lthrow
    /\ ~ContainsPluginId(Mgr, fs[path].id)
\* the file of the path is not registered and loading it fails
FailsToLoad(path) == ~ContainsPluginFile(Mgr, path) /\ ~LoadsCorrectly(path)

\* what load_plugin(path) has done when it returns
LoadedOnce(path) ==
    /\ Len(result'.load.succ) + Len(result'.load.fail) <= 1
    /\ FailsToLoad(path) => result'.load.fail = <<path>> /\ result'.load.succ = <<>>
    /\ LoadsCorrectly(path) => result'.load.succ = <<fs[path].id>> /\ result'.load.fail = <<>>

FoldersStep == \A path \in PyPaths : LoadPlugin(path) => LoadedOnce(path)

\* C33: load_plugin(path) attempts to load the file at most once and records at most
\* one entry for it, whatever the number of plugin folders (zero, one or several): a
\* file that fails to load is once in load-fail, and a file not yet registered that
\* loads correctly is loaded, also when it lies in none of several folders.
C33_LoadsFileOnce == [][FoldersStep]_vars

\* the same with one plugin folder configured
OneFolderStep == Len(plugin_folders) = 1 => FoldersStep
LoadsFileOnceInOneFolder == [][OneFolderStep]_vars

(***************************************************************************)
(* Calls inside calls on one reactor worker                                *)
(* A listener is plugin code: it may call ServerInterface.dispatch_event,  *)
(* which execute_or_enqueue runs inline on a reactor worker, a             *)
(* registration method, or a plugin operation, whose PLUGIN_LOAD and       *)
(* PLUGIN_UNLOAD handlers are plugin code in turn.  stack holds the calls  *)
(* of dispatch_event and of the operations that are in progress.           *)
(***************************************************************************)
\* the worker whose calls the stack holds
Reactor == "w1"
besidesNested ==
    <<raceVars, caller, infoVars, cmdVars, bldVars, metaVars, rconVars, resVars, foldVars,
      queue, disp, error, enqueued, started>>

Top == stack[Len(stack)]
Push(frame) == stack' = Append(stack, frame)
Pop == stack' = SubSeq(stack, 1, Len(stack) - 1)
SetTop(frame) == stack' = [stack EXCEPT ![Len(stack)] = frame]
\* the events and the state changes an operation has made are not kept from step to step
CommitStep(m) == Commit([m EXCEPT !.events = <<>>, !.trans = {}])
\* plugin code runs in the innermost call: a listener or a lifecycle handler
InPluginCode == stack # <<>> /\ Top.pc = "exec"
\* the plugin is in the plugins map in state READY
IsReady(m, id) == ContainsPluginId(m, id) /\ m.plug[id].state = READY

\* execute_or_enqueue(fn) on thread t runs fn inline
RunsInline(t) == OnInfoReactorThread(t)

\* the plugins that have a listener in the list
Owners(list) == {list[k].plugin : k \in 1..Len(list)}
\* the plugins the operation in progress has taken off the map: the registry still holds
\* the listeners of their Plugin objects
TakenOffInProgress ==
    UNION {stack[k].off : k \in {j \in 1..Len(stack) : stack[j].kind = "operation"}}

\* PluginManager.dispatch_event up to its loop: the listener list of the event. A
\* listener holds its Plugin object; gone: the plugins of the list whose object has left
\* the map, replaced: those of them for which the map has had another object since
DispatchFrame(ev) ==
    [kind |-> "dispatch", pc |-> "loop", ev |-> ev, list |-> registry[ev], i |-> 1,
     owner |-> None, ready |-> TRUE,
     gone |-> TakenOffInProgress \cap Owners(registry[ev]), replaced |-> {}]

\* the worker takes a task that dispatches ev
TaskDispatch(ev) ==
    /\ stack = <<>>
    /\ Quiet
    /\ Push(DispatchFrame(ev))
    /\ UNCHANGED <<mgrVars, slot, noted, besidesNested>>

\* trigger_listener up to the call of the listener
NestedTrigger ==
    /\ stack # <<>>
    /\ Top.kind = "dispatch"
    /\ Top.pc = "loop"
    /\ Top.i <= Len(Top.list)
    /\ slot' = SetCurrentPlugin(slot, Reactor, Top.list[Top.i].plugin)
    /\ SetTop([Top EXCEPT !.pc = "exec", !.owner = Top.list[Top.i].plugin,
                          !.ready = Top.list[Top.i].plugin \notin Top.gone
                                        /\ IsReady(Mgr, Top.list[Top.i].plugin)])
    /\ UNCHANGED <<mgrVars, noted, besidesNested>>

\* the plugin code calls ServerInterface.dispatch_event(ev, args)
CodeDispatch(ev) ==
    /\ InPluginCode
    /\ Len(stack) < MaxDepth
    /\ RunsInline(Reactor)
    /\ Push(DispatchFrame(ev))
    /\ UNCHANGED <<mgrVars, slot, noted, besidesNested>>

\* the plugin code calls ServerInterface.add_event_listener(ev, callback, prio): the
\* listener goes to the Plugin object of the slot, the one whose listener or handler
\* runs; plug has it unless the map has had another object of that id since
CodeRegister(ev, prio) ==
    /\ InPluginCode
    /\ adds < MaxAdds
    /\ LET cur == GetCurrentPlugin(slot, Reactor) IN
          /\ noted' = [noted |-> TRUE, kind |-> Top.kind, owner |-> Top.owner,
                        plugin |-> cur.plugin, exc |-> cur.exc]
          /\ plug' = IF cur.exc = None /\ ~(Top.kind = "dispatch" /\ cur.plugin \in Top.replaced)
                     THEN [plug EXCEPT ![cur.plugin] = PluginAddEventListener(@, Listener(cur.plugin, ev, prio))]
                     ELSE plug
    /\ adds' = adds + 1
    /\ UNCHANGED <<fs, order, plugins, fpath, registry, synced, lastOp, result, events, trans, raised, changes>>
    /\ UNCHANGED <<slot, stack, besidesNested>>

\* the listener returns or throws: except and finally of trigger_listener
NestedListenerEnd ==
    /\ InPluginCode
    /\ Top.kind = "dispatch"
    /\ slot' = SetCurrentPlugin(slot, Reactor, None)
    /\ SetTop([Top EXCEPT !.pc = "loop", !.i = @ + 1])
    /\ UNCHANGED <<mgrVars, noted, besidesNested>>

\* dispatch_event returns
NestedDispatchEnd ==
    /\ stack # <<>>
    /\ Top.kind = "dispatch"
    /\ Top.pc = "loop"
    /\ Top.i > Len(Top.list)
    /\ Pop
    /\ UNCHANGED <<mgrVars, slot, noted, besidesNested>>

\* __post_plugin_process up to the lifecycle events: the dependency check, the record
\* of the result and plugin.ready(); gives the manager and the plugins that are to
\* receive PLUGIN_LOAD and PLUGIN_UNLOAD, in order
PostCheck(m, load, unload, reload) ==
    LET chk == CheckPluginDependencies(m)
        rec == [chk.m EXCEPT !.result = [load |-> load, unload |-> unload,
                                         reload |-> reload, dep |-> chk.result]]
    IN [m |-> ReadyEach(rec, ReadyList(load, reload, chk.result), 1),
        loads |-> LoadEventList(load, reload, chk.result),
        unloads |-> UnloadList(unload, reload, chk.result),
        load |-> load]

\* refresh_all_plugins up to the lifecycle events
RefreshCollected(m, fsys, listing) ==
    LET l == CollectAndProcessNewPlugins(m, fsys, listing, Paths, None)
        u == CollectAndRemovePlugins(l.m, {id \in LoadedIds(l.m) : ~FileExists(fsys, l.m.plug[id])}, None)
        r == ReloadReadyPlugins(u.m, fsys, ReloadFilter(u.m, fsys, "all"), None)
    IN PostCheck(r.m, l.result, u.result, r.result)

\* disable_plugin up to the lifecycle events of its unload_plugin
DisableCollected(m, id) ==
    LET u == CollectAndRemovePlugins(m, Ids, id)
    IN PostCheck(u.m, EmptySingle, u.result, EmptySingle)

\* what the operation leaves when it runs from its call to its return with no plugin
\* code in between: the map, the files, the states of the plugins, the result
Leaves(m, fsys) ==
    [plugins |-> m.plugins, fpath |-> m.fpath, raised |-> m.raised, result |-> m.result, fs |-> fsys,
     states |-> [i \in Ids |-> IF m.plug[i] = NoPlugin THEN None ELSE m.plug[i].state]]

\* the operation in progress: the lifecycle events it has yet to deliver; path is the
\* file disable_plugin renames once unload_plugin has returned
OperationFrame(name, c, path, after) ==
    [kind |-> "operation", pc |-> "events", name |-> name, loads |-> c.loads, unloads |-> c.unloads,
     load |-> c.load, path |-> path, owner |-> None, ready |-> TRUE, after |-> after,
     off |-> Range(plugins) \ Range(c.m.plugins)]

\* the dispatches in progress once the operation has collected: the Plugin objects it
\* took off the map are gone, and those gone before whose id it loaded are replaced
Marked(st, c) ==
    [k \in 1..Len(st) |->
        IF st[k].kind # "dispatch" THEN st[k]
        ELSE [st[k] EXCEPT !.replaced = @ \cup (st[k].gone \cap Range(c.load.succ)),
                           !.gone = @ \cup ((Range(plugins) \ Range(c.m.plugins)) \cap Owners(st[k].list))]]
\* the operation is called
PushOperation(c, frame) == stack' = Append(Marked(stack, c), frame)

\* the plugins of the model call no plugin operation while one is in progress
NoOperationInProgress == \A k \in 1..Len(stack) : stack[k].kind # "operation"

\* a task of the worker, or a listener running on it, calls a plugin operation of the
\* facade
CallsOperation ==
    /\ Len(stack) < MaxDepth
    /\ stack # <<>> => InPluginCode
    /\ NoOperationInProgress
    /\ OnInfoReactorThread(Reactor)

\* ServerInterface.refresh_all_plugins up to the lifecycle events
BeginRefreshAll ==
    /\ CallsOperation
    /\ LET c == RefreshCollected(BeginOp(Mgr), fs, Listing) IN
          /\ CommitStep(c.m)
          /\ PushOperation(c, OperationFrame("refresh_all_plugins", c, None,
                                             Leaves(RefreshPlugins(BeginOp(Mgr), fs, Listing, "all"), fs)))
    /\ UNCHANGED <<fs, order, synced, lastOp, changes, adds, slot, noted, besidesNested>>

\* ServerInterface.disable_plugin(id) up to the lifecycle events
BeginDisable(id) ==
    /\ CallsOperation
    /\ ContainsPluginId(Mgr, id)
    /\ LET c == DisableCollected(BeginOp(Mgr), id) IN
          /\ CommitStep(c.m)
          /\ PushOperation(c, OperationFrame("disable_plugin", c, plug[id].file_path,
                                             Leaves(MgrDisablePlugin(Mgr, fs, id).m,
                                                    MgrDisablePlugin(Mgr, fs, id).fs)))
    /\ UNCHANGED <<fs, order, synced, lastOp, changes, adds, slot, noted, besidesNested>>

InOperation == stack # <<>> /\ Top.kind = "operation" /\ Top.pc = "events"

\* plugin.receive_event(PLUGIN_LOAD, ...) of the next newly loaded plugin, up to the
\* call of its handler
DeliverLoad ==
    /\ InOperation
    /\ Top.loads # <<>>
    /\ CommitStep(ReceiveEvent(Mgr, Head(Top.loads), PLUGIN_LOAD))
    /\ slot' = SetCurrentPlugin(slot, Reactor, Head(Top.loads))
    /\ SetTop([Top EXCEPT !.pc = "exec", !.owner = Head(Top.loads)])
    /\ UNCHANGED <<fs, order, synced, lastOp, changes, adds, noted, besidesNested>>

\* the next plugin taken off: assert_state, and receive_event(PLUGIN_UNLOAD, ...) up to
\* the call of its handler unless the plugin was loaded by this operation
DeliverUnload ==
    /\ InOperation
    /\ Top.loads = <<>>
    /\ Top.unloads # <<>>
    /\ LET id == Head(Top.unloads) IN
          IF plug[id].state \notin {UNLOADING}
          THEN /\ CommitStep([Mgr EXCEPT !.raised = TRUE])
               /\ Pop
               /\ UNCHANGED slot
          ELSE IF ReceivesUnload(Top.load, id)
          THEN /\ CommitStep(ReceiveEvent(Mgr, id, PLUGIN_UNLOAD))
               /\ slot' = SetCurrentPlugin(slot, Reactor, id)
               /\ SetTop([Top EXCEPT !.pc = "exec", !.owner = id])
          ELSE /\ CommitStep(SetPlugin(Mgr, id, PluginRemove(plug[id])))
               /\ SetTop([Top EXCEPT !.unloads = Tail(@)])
               /\ UNCHANGED slot
    /\ UNCHANGED <<fs, order, synced, lastOp, changes, adds, noted, besidesNested>>

\* the lifecycle handler returns or throws; a plugin taken off is removed
HandlerEnd ==
    /\ InPluginCode
    /\ Top.kind = "operation"
    /\ slot' = SetCurrentPlugin(slot, Reactor, None)
    /\ IF Top.loads # <<>>
       THEN /\ SetTop([Top EXCEPT !.pc = "events", !.loads = Tail(@)])
            /\ UNCHANGED mgrVars
       ELSE /\ SetTop([Top EXCEPT !.pc = "events", !.unloads = Tail(@)])
            /\ CommitStep(SetPlugin(Mgr, Top.owner, PluginRemove(plug[Top.owner])))
            /\ UNCHANGED <<fs, order, synced, lastOp, changes, adds>>
    /\ UNCHANGED <<noted, besidesNested>>

\* the end of __post_plugin_process: the closing assertion and __update_registry;
\* disable_plugin then renames the file
OperationEnd ==
    /\ InOperation
    /\ Top.loads = <<>>
    /\ Top.unloads = <<>>
    /\ LET d == AssertAllReady(Mgr)
           m == IF d.raised THEN d ELSE UpdateRegistry(d)
       IN /\ CommitStep(m)
          /\ fs' = IF Top.name = "disable_plugin" /\ ~m.raised /\ fs[Top.path] # NoFile
                   THEN Rename(fs, Top.path, AppendDisabledSuffix(Top.path)) ELSE fs
    /\ Pop
    /\ UNCHANGED <<order, synced, lastOp, changes, adds, slot, noted, besidesNested>>

NextNested ==
    \/ \E ev \in Events : TaskDispatch(ev)
    \/ NestedTrigger
    \/ \E ev \in Events : CodeDispatch(ev)
    \/ \E ev \in Events : CodeRegister(ev, 2)
    \/ NestedListenerEnd
    \/ NestedDispatchEnd
    \/ BeginRefreshAll
    \/ \E id \in Ids : BeginDisable(id)
    \/ DeliverLoad
    \/ DeliverUnload
    \/ HandlerEnd
    \/ OperationEnd

\* the manager is constructed over a plugin folder that holds b.py and d.py, listed by
\* name
InitNestedPlugins ==
    /\ InitTwoPlugins
    /\ order = ByName

SpecNested == InitNestedPlugins /\ [][NextNested]_vars

\* an operation that returns leaves what it leaves when it runs in one step
OperationReturns == stack # <<>> /\ Top.kind = "operation" /\ Len(stack') < Len(stack)
StepsAgree == [][OperationReturns => Leaves(Mgr, fs)' = Top.after]_vars

\* C31: while a listener of plugin P runs, the current-plugin
\* slot of its thread is P, also once an event the listener dispatched through
\* ServerInterface.dispatch_event has run inline and returned; a registration call the
\* listener makes is then attributed to P and does not raise IllegalCall.
C31_SlotIsTheListenersPlugin ==
    /\ (InPluginCode /\ Top.kind = "dispatch") => slot[Reactor] = Top.owner
    /\ (noted # NotNoted /\ noted.kind = "dispatch") => (noted.exc = None /\ noted.plugin = noted.owner)

\* C32: every listener dispatch_event triggers belongs to a plugin that is in the
\* plugins map in state READY when the listener is invoked, also in a dispatch made by
\* a PLUGIN_LOAD or PLUGIN_UNLOAD handler during an operation's post-processing and
\* after a listener of the same dispatch has run a manager operation.
C32_ListenersOfLoadedPlugins ==
    \A k \in 1..Len(stack) : (stack[k].kind = "dispatch" /\ stack[k].pc = "exec") => stack[k].ready

====
